---- MODULE Spec2Model ----
(***************************************************************************)
(* A model of the breeze template renderer (src/breeze.c).                 *)
(*                                                                         *)
(* One render_template call is modelled as a state machine whose steps are *)
(* the iterations of the scanner's main loop, followed by the              *)
(* end-of-input checks.  Strings are sequences of one-character strings;   *)
(* a pointer into the template is a 1-based index, and the terminating NUL *)
(* sits at index Len(tpl) + 1.  Allocation failure (malloc/realloc         *)
(* returning NULL) is left out of the model.                               *)
(***************************************************************************)
EXTENDS Integers, Sequences, FiniteSets, TLC

VARIABLES
    input,              \* how the caller built this call's arguments (never written)
    tpl,                \* const char* template
    ctx,                \* const TemplateContext* ctx (sequence of TemplateVar)
    p,                  \* const char* p (index into tpl)
    out,                \* OutputBuffer* out
    loop_stack,         \* LoopStack loop_stack
    conditional_stack,  \* ConditionalStack conditional_stack
    in_comment,         \* bool in_comment
    last_comment,       \* const char* last_comment (0 = NULL)
    err,                \* TemplateError* err
    ret,                \* "running" while in the loop, else the return value
    other,              \* a second render_template call: its template, locals, *out, *err
    sched               \* which of the two calls the variables above belong to

vars == <<input, tpl, ctx, p, out, loop_stack, conditional_stack, in_comment,
          last_comment, err, ret, other, sched>>

(***************************************************************************)
(* Characters and C string helpers                                         *)
(***************************************************************************)

NUL == "\\0"

\* isspace() in the C locale (the vertical tab has no TLA+ spelling)
isspace(c) == c \in {" ", "\t", "\n", "\r", "\f"}

\* s[i - 1] in C terms: the character at index i, NUL at or past the end
CharAt(s, i) == IF i >= 1 /\ i <= Len(s) THEN s[i] ELSE NUL

\* strncmp(s + i - 1, needle, strlen(needle)) == 0
MatchAt(s, i, needle) ==
    /\ i >= 1
    /\ i + Len(needle) - 1 <= Len(s)
    /\ \A k \in 1..Len(needle) : s[i + k - 1] = needle[k]

\* strstr(s + from - 1, needle): index of the first match at or after from, 0 = NULL
strstr(s, from, needle) ==
    LET hits == {i \in from..(Len(s) - Len(needle) + 1) : MatchAt(s, i, needle)}
    IN  IF hits = {} THEN 0 ELSE CHOOSE i \in hits : \A j \in hits : i <= j

\* The trimming idiom: skip leading isspace, then cut trailing isspace
TrimLeft(s) ==
    LET ks == {k \in 1..Len(s) : ~isspace(s[k])}
    IN  IF ks = {} THEN <<>>
        ELSE SubSeq(s, CHOOSE k \in ks : \A j \in ks : k <= j, Len(s))

TrimRight(s) ==
    LET ks == {k \in 1..Len(s) : ~isspace(s[k])}
    IN  IF ks = {} THEN <<>>
        ELSE SubSeq(s, 1, CHOOSE k \in ks : \A j \in ks : k >= j)

\* faulty variant of Trim: trailing whitespace is kept
Trim_leading_only(s) == TrimLeft(s)

Trim(s) == TrimRight(TrimLeft(s))

\* snprintf(dst, size, ...): at most size - 1 characters are stored
Truncate(s, size) == IF Len(s) > size - 1 THEN SubSeq(s, 1, size - 1) ELSE s

(***************************************************************************)
(* Text constants of the source, spelled as character sequences            *)
(***************************************************************************)

\* "{{"
VAR_OPEN ==
    <<"{", "{">>

\* "}}"
VAR_CLOSE ==
    <<"}", "}">>

\* "{%"
DIR_OPEN ==
    <<"{", "%">>

\* "%}"
DIR_CLOSE ==
    <<"%", "}">>

\* "<!--"
COMMENT_OPEN ==
    <<"<", "!", "-", "-">>

\* "-->"
COMMENT_CLOSE ==
    <<"-", "-", ">">>

\* "{% endfor %}"
ENDFOR_TEXT ==
    <<"{", "%", " ", "e", "n", "d", "f", "o", "r", " ", "%", "}">>

\* "{% else %}"
ELSE_TEXT ==
    <<"{", "%", " ", "e", "l", "s", "e", " ", "%", "}">>

\* "{% endif %}"
ENDIF_TEXT ==
    <<"{", "%", " ", "e", "n", "d", "i", "f", " ", "%", "}">>

\* "for "
KW_FOR_SP ==
    <<"f", "o", "r", " ">>

\* "for"
KW_FOR ==
    <<"f", "o", "r">>

\* "in"
KW_IN ==
    <<"i", "n">>

\* "endfor"
KW_ENDFOR ==
    <<"e", "n", "d", "f", "o", "r">>

\* "if "
KW_IF_SP ==
    <<"i", "f", " ">>

\* "else"
KW_ELSE ==
    <<"e", "l", "s", "e">>

\* "endif"
KW_ENDIF ==
    <<"e", "n", "d", "i", "f">>

\* "true"
STR_TRUE ==
    <<"t", "r", "u", "e">>

\* "false"
STR_FALSE ==
    <<"f", "a", "l", "s", "e">>

\* "[array of size "
ARRAY_FMT_HEAD ==
    <<"[", "a", "r", "r", "a", "y", " ", "o", "f", " ", "s", "i", "z", "e",
      " ">>

\* "]"
ARRAY_FMT_TAIL ==
    <<"]">>

\* "Missing template variable for '"
MISSING_FMT_HEAD ==
    <<"M", "i", "s", "s", "i", "n", "g", " ", "t", "e", "m", "p", "l", "a",
      "t", "e", " ", "v", "a", "r", "i", "a", "b", "l", "e", " ", "f", "o",
      "r", " ", "'">>

\* "'"
MISSING_FMT_TAIL ==
    <<"'">>

\* "Unmatched comment closing tag '-->'"
MSG_UNMATCHED_COMMENT ==
    <<"U", "n", "m", "a", "t", "c", "h", "e", "d", " ", "c", "o", "m", "m",
      "e", "n", "t", " ", "c", "l", "o", "s", "i", "n", "g", " ", "t", "a",
      "g", " ", "'", "-", "-", ">", "'">>

\* "Unterminated '{{' tag"
MSG_UNTERMINATED_VAR ==
    <<"U", "n", "t", "e", "r", "m", "i", "n", "a", "t", "e", "d", " ", "'",
      "{", "{", "'", " ", "t", "a", "g">>

\* "Variable name is too long"
MSG_NAME_TOO_LONG ==
    <<"V", "a", "r", "i", "a", "b", "l", "e", " ", "n", "a", "m", "e", " ",
      "i", "s", " ", "t", "o", "o", " ", "l", "o", "n", "g">>

\* "Unterminated '{%' tag"
MSG_UNTERMINATED_DIR ==
    <<"U", "n", "t", "e", "r", "m", "i", "n", "a", "t", "e", "d", " ", "'",
      "{", "%", "'", " ", "t", "a", "g">>

\* "Directive is too long"
MSG_DIRECTIVE_TOO_LONG ==
    <<"D", "i", "r", "e", "c", "t", "i", "v", "e", " ", "i", "s", " ", "t",
      "o", "o", " ", "l", "o", "n", "g">>

\* "Invalid 'for' loop. Use: {% for item in items %}"
MSG_INVALID_FOR ==
    <<"I", "n", "v", "a", "l", "i", "d", " ", "'", "f", "o", "r", "'", " ",
      "l", "o", "o", "p", ".", " ", "U", "s", "e", ":", " ", "{", "%", " ",
      "f", "o", "r", " ", "i", "t", "e", "m", " ", "i", "n", " ", "i", "t",
      "e", "m", "s", " ", "%", "}">>

\* "Variable for loop is not a valid array"
MSG_NOT_ARRAY ==
    <<"V", "a", "r", "i", "a", "b", "l", "e", " ", "f", "o", "r", " ", "l",
      "o", "o", "p", " ", "i", "s", " ", "n", "o", "t", " ", "a", " ", "v",
      "a", "l", "i", "d", " ", "a", "r", "r", "a", "y">>

\* "Found 'endfor' with no matching 'for'"
MSG_ENDFOR_NO_FOR ==
    <<"F", "o", "u", "n", "d", " ", "'", "e", "n", "d", "f", "o", "r", "'",
      " ", "w", "i", "t", "h", " ", "n", "o", " ", "m", "a", "t", "c", "h",
      "i", "n", "g", " ", "'", "f", "o", "r", "'">>

\* "Found 'else' with no matching 'if'"
MSG_ELSE_NO_IF ==
    <<"F", "o", "u", "n", "d", " ", "'", "e", "l", "s", "e", "'", " ", "w",
      "i", "t", "h", " ", "n", "o", " ", "m", "a", "t", "c", "h", "i", "n",
      "g", " ", "'", "i", "f", "'">>

\* "Found 'endif' with no matching 'if'"
MSG_ENDIF_NO_IF ==
    <<"F", "o", "u", "n", "d", " ", "'", "e", "n", "d", "i", "f", "'", " ",
      "w", "i", "t", "h", " ", "n", "o", " ", "m", "a", "t", "c", "h", "i",
      "n", "g", " ", "'", "i", "f", "'">>

\* "Unterminated HTML comment '<!--'"
MSG_UNTERMINATED_COMMENT ==
    <<"U", "n", "t", "e", "r", "m", "i", "n", "a", "t", "e", "d", " ", "H",
      "T", "M", "L", " ", "c", "o", "m", "m", "e", "n", "t", " ", "'", "<",
      "!", "-", "-", "'">>

\* "Unclosed 'for' loop at end of template"
MSG_UNCLOSED_FOR ==
    <<"U", "n", "c", "l", "o", "s", "e", "d", " ", "'", "f", "o", "r", "'",
      " ", "l", "o", "o", "p", " ", "a", "t", " ", "e", "n", "d", " ", "o",
      "f", " ", "t", "e", "m", "p", "l", "a", "t", "e">>

\* "Unclosed 'if' statement at end of template"
MSG_UNCLOSED_IF ==
    <<"U", "n", "c", "l", "o", "s", "e", "d", " ", "'", "i", "f", "'", " ",
      "s", "t", "a", "t", "e", "m", "e", "n", "t", " ", "a", "t", " ", "e",
      "n", "d", " ", "o", "f", " ", "t", "e", "m", "p", "l", "a", "t", "e">>


(***************************************************************************)
(* Values and the context (breeze.h)                                       *)
(***************************************************************************)

\* sizeof(var_name), sizeof(directive), sizeof(condition_copy), sizeof(msg)
NAME_BUF_SIZE == 128

\* sizeof(err->message)
ERR_MESSAGE_SIZE == 256

\* buffer_init's capacity when the caller asks for 0
DEFAULT_BUFFER_CAPACITY == 1024

\* the capacity render_template gives both stacks
INITIAL_STACK_CAPACITY == 4

\* a NULL const char*; it never equals a character sequence
NULL_STR == <<"NULL">>

\* TemplateValueUnion: the members the model uses. int integer is an integer
\* of 32 bits; unsigned int uint is a word of two 16-bit limbs and long
\* long_int a two's complement word of four, most significant limb first.
ZeroUnion ==
    [str |-> NULL_STR, integer |-> 0, boolean |-> FALSE, long_int |-> <<0, 0, 0, 0>>,
     uint |-> <<0, 0>>,
     array |-> [items |-> <<>>, count |-> 0, item_type |-> "TMPL_STRING"]]

\* TemplateValue constructors (the VAR_* macros)
VAR_STRING(s) == [type |-> "TMPL_STRING", value |-> [ZeroUnion EXCEPT !.str = s]]

VAR_INT(n) == [type |-> "TMPL_INT", value |-> [ZeroUnion EXCEPT !.integer = n]]

VAR_BOOL(b) == [type |-> "TMPL_BOOL", value |-> [ZeroUnion EXCEPT !.boolean = b]]

VAR_LONG(n) == [type |-> "TMPL_LONG", value |-> [ZeroUnion EXCEPT !.long_int = n]]

VAR_UINT(n) == [type |-> "TMPL_UINT", value |-> [ZeroUnion EXCEPT !.uint = n]]

\* items holds one union per element, typed by item_type
VAR_ARRAY(items, item_type) ==
    [type |-> "TMPL_ARRAY",
     value |-> [ZeroUnion EXCEPT !.array =
                   [items |-> items, count |-> Len(items), item_type |-> item_type]]]

\* an element of a string array
StrItem(s) == [ZeroUnion EXCEPT !.str = s]

\* an element of a bool array
BoolItem(b) == [ZeroUnion EXCEPT !.boolean = b]

\* an element of an int array
IntItem(n) == [ZeroUnion EXCEPT !.integer = n]

\* TemplateVar
TemplateVar(k, v) == [key |-> k, value |-> v]

\* context_get: the first entry whose key equals key, as <<found, value>>
context_get(c, key) ==
    LET hits == {i \in 1..Len(c) : c[i].key = key}
    IN  IF hits = {} THEN [found |-> FALSE, val |-> VAR_INT(0)]
        ELSE [found |-> TRUE,
              val |-> c[CHOOSE i \in hits : \A j \in hits : i <= j].value]

(***************************************************************************)
(* Number formatting: snprintf with %d, %ld, %u, %zu                       *)
(***************************************************************************)

Digit(d) == <<"0", "1", "2", "3", "4", "5", "6", "7", "8", "9">>[d + 1]

RECURSIVE UnsignedDigits(_)
UnsignedDigits(n) ==
    IF n < 10 THEN <<Digit(n)>> ELSE UnsignedDigits(n \div 10) \o <<Digit(n % 10)>>

RECURSIVE NegativeDigits(_)
\* the decimal digits of -n for n < 0, computed without forming -n (which
\* does not exist for INT_MIN)
NegativeDigits(n) ==
    LET d == (10 - (n % 10)) % 10
        q == (n + d) \div 10
    IN  IF q = 0 THEN <<Digit(d)>> ELSE NegativeDigits(q) \o <<Digit(d)>>

\* "%d"
SignedDigits(n) == IF n < 0 THEN <<"-">> \o NegativeDigits(n) ELSE UnsignedDigits(n)

\* the values of one limb are 0 .. LIMB - 1
LIMB == 2 ^ 16

WordIsZero(w) == \A i \in 1..Len(w) : w[i] = 0

RECURSIVE DivideByTen(_, _)
\* long division of the word rem : w by ten: the quotient word and the
\* remainder
DivideByTen(w, rem) ==
    IF w = <<>> THEN [q |-> <<>>, r |-> rem]
    ELSE LET cur == rem * LIMB + Head(w)
             rest == DivideByTen(Tail(w), cur % 10)
         IN  [q |-> <<cur \div 10>> \o rest.q, r |-> rest.r]

RECURSIVE WordDigits(_)
\* "%u": the decimal digits of a word read as an unsigned number
WordDigits(w) ==
    LET d == DivideByTen(w, 0)
    IN  IF WordIsZero(d.q) THEN <<Digit(d.r)>> ELSE WordDigits(d.q) \o <<Digit(d.r)>>

\* the sign bit of a two's complement word
WordIsNegative(w) == w[1] >= LIMB \div 2

RECURSIVE Increment(_)
\* w + 1 modulo the width of the word
Increment(w) ==
    IF w = <<>> THEN <<>>
    ELSE LET front == SubSeq(w, 1, Len(w) - 1)
             last == w[Len(w)]
         IN  IF last + 1 < LIMB THEN front \o <<last + 1>>
             ELSE Increment(front) \o <<0>>

\* the magnitude of a negative two's complement word, as an unsigned word
WordMagnitude(w) == Increment([i \in 1..Len(w) |-> LIMB - 1 - w[i]])

\* "%ld", and "%d" of a word: the decimal digits of a two's complement word
SignedWordDigits(w) ==
    IF WordIsNegative(w) THEN <<"-">> \o WordDigits(WordMagnitude(w)) ELSE WordDigits(w)

(***************************************************************************)
(* Output buffer                                                           *)
(***************************************************************************)

\* buffer_init
buffer_init(initial_capacity) ==
    [data |-> <<>>,
     capacity |-> IF initial_capacity = 0 THEN DEFAULT_BUFFER_CAPACITY
                  ELSE initial_capacity]

\* faulty variant of GrowCapacity: the capacity is doubled once, whatever the need
GrowCapacity_once(new_capacity, need) == new_capacity

RECURSIVE GrowCapacity(_, _)
\* the doubling loop of buffer_append
GrowCapacity(new_capacity, need) ==
    IF need > new_capacity THEN GrowCapacity(new_capacity * 2, need) ELSE new_capacity

\* buffer_append; buf.size is Len(buf.data), and data[size] is the terminator
buffer_append(buf, str) ==
    IF Len(str) = 0 THEN buf
    ELSE [data |-> buf.data \o str,
          capacity |->
              IF Len(buf.data) + Len(str) + 1 > buf.capacity
              THEN GrowCapacity(buf.capacity * 2, Len(buf.data) + Len(str) + 1)
              ELSE buf.capacity]


\* faulty variant of value_text: the unsigned int is formatted with "%d"
value_text_uint_as_int(val) ==
    CASE val.type = "TMPL_STRING" ->
             IF val.value.str = NULL_STR THEN <<>> ELSE val.value.str
      [] val.type = "TMPL_INT" -> SignedDigits(val.value.integer)
      [] val.type = "TMPL_BOOL" -> IF val.value.boolean THEN STR_TRUE ELSE STR_FALSE
      [] val.type = "TMPL_LONG" -> SignedWordDigits(val.value.long_int)
      [] val.type = "TMPL_UINT" -> SignedWordDigits(val.value.uint)
      [] val.type = "TMPL_ARRAY" ->
             ARRAY_FMT_HEAD \o UnsignedDigits(val.value.array.count) \o ARRAY_FMT_TAIL

\* value_to_string: the text appended for a value
value_text(val) ==
    CASE val.type = "TMPL_STRING" ->
             IF val.value.str = NULL_STR THEN <<>> ELSE val.value.str
      [] val.type = "TMPL_INT" -> SignedDigits(val.value.integer)
      [] val.type = "TMPL_BOOL" -> IF val.value.boolean THEN STR_TRUE ELSE STR_FALSE
      [] val.type = "TMPL_LONG" -> SignedWordDigits(val.value.long_int)
      [] val.type = "TMPL_UINT" -> WordDigits(val.value.uint)
      [] val.type = "TMPL_ARRAY" ->
             ARRAY_FMT_HEAD \o UnsignedDigits(val.value.array.count) \o ARRAY_FMT_TAIL

value_to_string(val, buf) == buffer_append(buf, value_text(val))

\* faulty variant of is_truthy: every int is truthy
is_truthy_any_int(val) ==
    CASE val.type = "TMPL_BOOL" -> val.value.boolean
      [] val.type = "TMPL_INT" -> TRUE
      [] val.type = "TMPL_LONG" -> ~WordIsZero(val.value.long_int)
      [] val.type = "TMPL_UINT" -> ~WordIsZero(val.value.uint)
      [] val.type = "TMPL_STRING" ->
             val.value.str # NULL_STR /\ Len(val.value.str) > 0
      [] val.type = "TMPL_ARRAY" -> val.value.array.count > 0
      [] OTHER -> FALSE

\* faulty variant of is_truthy: every string that is not null is truthy
is_truthy_any_string(val) ==
    CASE val.type = "TMPL_BOOL" -> val.value.boolean
      [] val.type = "TMPL_INT" -> val.value.integer # 0
      [] val.type = "TMPL_LONG" -> ~WordIsZero(val.value.long_int)
      [] val.type = "TMPL_UINT" -> ~WordIsZero(val.value.uint)
      [] val.type = "TMPL_STRING" -> val.value.str # NULL_STR
      [] val.type = "TMPL_ARRAY" -> val.value.array.count > 0
      [] OTHER -> FALSE

\* is_truthy
is_truthy(val) ==
    CASE val.type = "TMPL_BOOL" -> val.value.boolean
      [] val.type = "TMPL_INT" -> val.value.integer # 0
      [] val.type = "TMPL_LONG" -> ~WordIsZero(val.value.long_int)
      [] val.type = "TMPL_UINT" -> ~WordIsZero(val.value.uint)
      [] val.type = "TMPL_STRING" ->
             val.value.str # NULL_STR /\ Len(val.value.str) > 0
      [] val.type = "TMPL_ARRAY" -> val.value.array.count > 0
      [] OTHER -> FALSE

(***************************************************************************)
(* Errors                                                                  *)
(***************************************************************************)

\* TemplateError err = {0}
NoError == [type |-> "TMPL_ERR_NONE", message |-> <<>>, line |-> 0]

\* set_error: what *err holds afterwards
set_error(type, message, line) ==
    [type |-> type, message |-> Truncate(message, ERR_MESSAGE_SIZE - 1), line |-> line]

\* calculate_line_number
calculate_line_number(template, error_pos) ==
    1 + Cardinality({i \in 1..(error_pos - 1) : CharAt(template, i) = "\n"})

\* snprintf(msg, sizeof(msg), "Missing template variable for '%s'", name)
MissingVariableMessage(name) ==
    Truncate(MISSING_FMT_HEAD \o name \o MISSING_FMT_TAIL, NAME_BUF_SIZE)

(***************************************************************************)
(* Loop stack and conditional stack                                        *)
(***************************************************************************)

\* loop_stack_init / conditional_stack_init
stack_init(capacity) == [frames |-> <<>>, capacity |-> capacity, allocated |-> TRUE]

\* the growth both push functions share
StackGrow(stack) ==
    IF Len(stack.frames) >= stack.capacity THEN stack.capacity * 2 ELSE stack.capacity

\* loop_stack_push
loop_stack_push(stack, array, item_name, loop_start) ==
    [stack EXCEPT
        !.frames = Append(stack.frames,
                          [array |-> array, index |-> 0, item_name |-> item_name,
                           loop_start |-> loop_start]),
        !.capacity = StackGrow(stack)]

\* faulty variant of loop_stack_pop: the frame below the top goes with it
loop_stack_pop_two_frames(stack) ==
    [stack EXCEPT !.frames = SubSeq(stack.frames, 1, Len(stack.frames) - 2)]

\* loop_stack_pop
loop_stack_pop(stack) ==
    IF Len(stack.frames) > 0
    THEN [stack EXCEPT !.frames = SubSeq(stack.frames, 1, Len(stack.frames) - 1)]
    ELSE stack

\* loop_stack_top(stack) != NULL
loop_stack_has_top(stack) == Len(stack.frames) > 0

\* *loop_stack_top(stack)
loop_stack_top(stack) == stack.frames[Len(stack.frames)]

\* conditional_stack_push
conditional_stack_push(stack, condition, if_start) ==
    [stack EXCEPT
        !.frames = Append(stack.frames,
                          [condition_met |-> condition, in_else_branch |-> FALSE,
                           if_start |-> if_start]),
        !.capacity = StackGrow(stack)]

\* faulty variant of conditional_stack_pop: the frame stays on the stack
conditional_stack_pop_keeps_frame(stack) == stack

\* conditional_stack_pop
conditional_stack_pop(stack) ==
    IF Len(stack.frames) > 0
    THEN [stack EXCEPT !.frames = SubSeq(stack.frames, 1, Len(stack.frames) - 1)]
    ELSE stack

\* faulty variant of conditional_stack_has_top: the top is never found
conditional_stack_has_top_never(stack) == FALSE

\* conditional_stack_top(stack) != NULL
conditional_stack_has_top(stack) == Len(stack.frames) > 0

\* *conditional_stack_top(stack)
conditional_stack_top(stack) == stack.frames[Len(stack.frames)]

\* faulty variant of LoopItem: the first element, whatever the index
LoopItem_first_element(frame) ==
    [type |-> frame.array.value.array.item_type,
     value |-> frame.array.value.array.items[1]]

\* the element a loop frame currently points at, as a TemplateValue
LoopItem(frame) ==
    [type |-> frame.array.value.array.item_type,
     value |-> frame.array.value.array.items[frame.index + 1]]

(***************************************************************************)
(* render_template: the scanner's view of the current position             *)
(***************************************************************************)

\* the loop condition *p, negated: p is at the terminating NUL
AtEnd == p > Len(tpl)

\* should_skip, computed from the top conditional frame
should_skip ==
    /\ conditional_stack_has_top(conditional_stack)
    /\ LET f == conditional_stack_top(conditional_stack)
       IN  \/ f.condition_met /\ f.in_else_branch
           \/ ~f.condition_met /\ ~f.in_else_branch

\* the scan has passed the three comment checks at the top of the loop body
Scanning ==
    /\ ret = "running"
    /\ ~AtEnd
    /\ ~in_comment
    /\ ~MatchAt(tpl, p, COMMENT_OPEN)
    /\ ~MatchAt(tpl, p, COMMENT_CLOSE)

\* faulty variant of AtVarOpen: a single brace opens a substitution
AtVarOpen_single_brace == CharAt(tpl, p) = "{"

\* *p == '{' && *(p + 1) == '{'
AtVarOpen == CharAt(tpl, p) = "{" /\ CharAt(tpl, p + 1) = "{"

\* *p == '{' && *(p + 1) == '%'
AtDirOpen == CharAt(tpl, p) = "{" /\ CharAt(tpl, p + 1) = "%"

\* faulty variant of SkipNewlines: no newline is consumed
SkipNewlines_none(q) == q

\* while (*q == '\n') q++
SkipNewlines(q) ==
    LET stops == {i \in q..(Len(tpl) + 1) : CharAt(tpl, i) # "\n"}
    IN  CHOOSE i \in stops : \A j \in stops : i <= j

\* while (*q != '\0' && *q != '\n') q++
SkipToLineEnd(q) ==
    LET stops == {i \in q..(Len(tpl) + 1) : CharAt(tpl, i) \in {NUL, "\n"}}
    IN  CHOOSE i \in stops : \A j \in stops : i <= j

\* strtok_r(s, " ", ...) repeated to the end: the tokens between runs of spaces
RECURSIVE strtok_all(_)
strtok_all(s) ==
    LET starts == {k \in 1..Len(s) : s[k] # " "}
    IN  IF starts = {} THEN <<>>
        ELSE LET b == CHOOSE k \in starts : \A j \in starts : k <= j
                 ends == {k \in b..Len(s) : s[k] = " "}
                 e == IF ends = {} THEN Len(s) + 1
                      ELSE CHOOSE k \in ends : \A j \in ends : k <= j
             IN  <<SubSeq(s, b, e - 1)>> \o strtok_all(SubSeq(s, e + 1, Len(s)))

(***************************************************************************)
(* The directive under the scan position.  These are the locals of the     *)
(* directive branch, meaningful when tpl has DIR_OPEN at p.                *)
(***************************************************************************)

tag_block_start == p

dir_start == p + 2

dir_end == strstr(tpl, dir_start, DIR_CLOSE)

\* the walk back to the character after the previous newline
line_start ==
    LET nls == {i \in 1..(tag_block_start - 1) : tpl[i] = "\n"}
    IN  IF nls = {} THEN 1 ELSE 1 + CHOOSE i \in nls : \A j \in nls : i >= j

only_whitespace_before ==
    \A i \in line_start..(tag_block_start - 1) : isspace(tpl[i])

only_whitespace_after ==
    \A i \in (dir_end + 2)..(SkipToLineEnd(dir_end + 2) - 1) : isspace(tpl[i])

is_standalone == only_whitespace_before /\ only_whitespace_after

\* the index after the last newline of the output, 0 when there is none
buffer_line_start ==
    LET nls == {i \in 1..Len(out.data) : out.data[i] = "\n"}
    IN  IF nls = {} THEN 0 ELSE CHOOSE i \in nls : \A j \in nls : i >= j

\* out after the whitespace control (out->size = buffer_line_start)
out_after_tag ==
    IF is_standalone /\ ~should_skip
    THEN [out EXCEPT !.data = SubSeq(out.data, 1, buffer_line_start)]
    ELSE out

\* p after the whitespace control
p_after_tag ==
    IF is_standalone
    THEN LET q == SkipToLineEnd(dir_end + 2)
         IN  IF CharAt(tpl, q) = "\n" THEN q + 1 ELSE q
    ELSE dir_end + 2

\* faulty variant of dir_len: the length of the directive after trimming
dir_len_trimmed == Len(Trim(SubSeq(tpl, dir_start, dir_end - 1)))

\* size_t dir_len = dir_end - dir_start
dir_len == dir_end - dir_start

\* cmd: the directive's text, trimmed
cmd == Trim(SubSeq(tpl, dir_start, dir_end - 1))

\* a directive that passed the unterminated and too-long checks
DirectiveReady ==
    /\ Scanning
    /\ ~AtVarOpen
    /\ AtDirOpen
    /\ dir_end # 0
    /\ dir_len < NAME_BUF_SIZE

IsFor == MatchAt(cmd, 1, KW_FOR_SP)

IsEndfor == ~IsFor /\ cmd = KW_ENDFOR

IsIf == ~IsFor /\ ~IsEndfor /\ MatchAt(cmd, 1, KW_IF_SP)

IsElse == ~IsFor /\ ~IsEndfor /\ ~IsIf /\ cmd = KW_ELSE

IsEndif == ~IsFor /\ ~IsEndfor /\ ~IsIf /\ ~IsElse /\ cmd = KW_ENDIF

\* faulty variant of is_loop_variable: a key of the context hides the loop
\* variable of the same name
is_loop_variable_context_first(name) ==
    /\ loop_stack_has_top(loop_stack)
    /\ name = loop_stack_top(loop_stack).item_name
    /\ ~context_get(ctx, name).found

\* faulty variant of is_loop_variable: the variable of any active loop
is_loop_variable_any_frame(name) ==
    \E i \in 1..Len(loop_stack.frames) : name = loop_stack.frames[i].item_name

\* current_loop && strcmp(name, current_loop->item_name) == 0
is_loop_variable(name) ==
    /\ loop_stack_has_top(loop_stack)
    /\ name = loop_stack_top(loop_stack).item_name

\* evaluate_condition: the result and what *err holds afterwards
evaluate_condition(condition, error_pos) ==
    LET trimmed == Trim(Truncate(condition, NAME_BUF_SIZE))
        val == context_get(ctx, trimmed)
    IN  IF is_loop_variable(trimmed)
        THEN LET item == LoopItem(loop_stack_top(loop_stack))
             IN  [result |-> IF item.type = "TMPL_ARRAY" THEN FALSE ELSE is_truthy(item),
                  err |-> err]
        ELSE IF ~val.found
        THEN [result |-> FALSE,
              err |-> set_error("TMPL_ERR_PARSE", MissingVariableMessage(trimmed),
                                calculate_line_number(tpl, error_pos))]
        ELSE [result |-> is_truthy(val.val), err |-> err]

(***************************************************************************)
(* Step outcomes                                                           *)
(***************************************************************************)

\* the loop goes round with new values of p, out and the stacks
Continue(new_p, new_out, new_loops, new_conds) ==
    /\ p' = new_p
    /\ out' = new_out
    /\ loop_stack' = new_loops
    /\ conditional_stack' = new_conds
    /\ UNCHANGED <<input, tpl, ctx, other, sched, in_comment, last_comment, err, ret>>

\* return false with *err as given; the stacks are left as they are
ReturnFalse(new_err, new_out) ==
    /\ ret' = "false"
    /\ err' = new_err
    /\ out' = new_out
    /\ UNCHANGED <<input, tpl, ctx, other, sched, p, loop_stack, conditional_stack,
                   in_comment, last_comment>>

\* return set_error(err, type, message, calculate_line_number(template, pos))
Fail(type, message, pos, new_out) ==
    ReturnFalse(set_error(type, message, calculate_line_number(tpl, pos)), new_out)

(***************************************************************************)
(* The steps of render_template                                            *)
(***************************************************************************)

\* "<!--" outside a comment opens one
CommentOpen ==
    /\ ret = "running"
    /\ ~AtEnd
    /\ ~in_comment
    /\ MatchAt(tpl, p, COMMENT_OPEN)
    /\ in_comment' = TRUE
    /\ last_comment' = p
    /\ p' = p + 4
    /\ UNCHANGED <<input, tpl, ctx, other, sched, out, loop_stack, conditional_stack, err, ret>>

\* faulty variant of CommentSkip: the characters passed over are copied out
CommentSkip_copies ==
    /\ ret = "running"
    /\ ~AtEnd
    /\ in_comment
    /\ IF MatchAt(tpl, p, COMMENT_CLOSE)
       THEN in_comment' = FALSE /\ p' = p + 3 /\ out' = out
       ELSE in_comment' = TRUE /\ p' = p + 1
            /\ out' = buffer_append(out, <<CharAt(tpl, p)>>)
    /\ UNCHANGED <<input, tpl, ctx, other, sched, loop_stack, conditional_stack,
                   last_comment, err, ret>>

\* inside a comment: "-->" closes it, any other character is passed over
CommentSkip ==
    /\ ret = "running"
    /\ ~AtEnd
    /\ in_comment
    /\ IF MatchAt(tpl, p, COMMENT_CLOSE)
       THEN in_comment' = FALSE /\ p' = p + 3
       ELSE in_comment' = TRUE /\ p' = p + 1
    /\ UNCHANGED <<input, tpl, ctx, other, sched, out, loop_stack, conditional_stack,
                   last_comment, err, ret>>

\* faulty variant of CommentCloseUnmatched: inside a skipped branch the mark
\* is passed over
CommentCloseUnmatched_unless_skipping ==
    /\ ret = "running"
    /\ ~AtEnd
    /\ ~in_comment
    /\ ~MatchAt(tpl, p, COMMENT_OPEN)
    /\ MatchAt(tpl, p, COMMENT_CLOSE)
    /\ IF should_skip
       THEN Continue(p + 1, out, loop_stack, conditional_stack)
       ELSE Fail("TMPL_ERR_PARSE", MSG_UNMATCHED_COMMENT, p, out)

\* "-->" outside a comment
CommentCloseUnmatched ==
    /\ ret = "running"
    /\ ~AtEnd
    /\ ~in_comment
    /\ ~MatchAt(tpl, p, COMMENT_OPEN)
    /\ MatchAt(tpl, p, COMMENT_CLOSE)
    /\ Fail("TMPL_ERR_PARSE", MSG_UNMATCHED_COMMENT, p, out)

\* {{ name }}
VariableSubstitution ==
    /\ Scanning
    /\ AtVarOpen
    /\ LET var_start == p + 2
           var_end == strstr(tpl, var_start, VAR_CLOSE)
           var_len == var_end - var_start
           name == Trim(SubSeq(tpl, var_start, var_end - 1))
           val == context_get(ctx, name)
       IN  IF var_end = 0
           THEN Fail("TMPL_ERR_PARSE", MSG_UNTERMINATED_VAR, p, out)
           ELSE IF should_skip
           THEN Continue(var_end + 2, out, loop_stack, conditional_stack)
           ELSE IF var_len >= NAME_BUF_SIZE
           THEN Fail("TMPL_ERR_PARSE", MSG_NAME_TOO_LONG, p, out)
           ELSE IF is_loop_variable(name)
           THEN Continue(var_end + 2,
                         value_to_string(LoopItem(loop_stack_top(loop_stack)), out),
                         loop_stack, conditional_stack)
           ELSE IF ~val.found
           THEN Fail("TMPL_ERR_RENDER", MissingVariableMessage(name), p, out)
           ELSE Continue(var_end + 2, value_to_string(val.val, out),
                         loop_stack, conditional_stack)

\* {% with no %} after it, or a directive of 128 characters or more
DirectiveMalformed ==
    /\ Scanning
    /\ ~AtVarOpen
    /\ AtDirOpen
    /\ IF dir_end = 0
       THEN Fail("TMPL_ERR_PARSE", MSG_UNTERMINATED_DIR, p, out)
       ELSE /\ dir_len >= NAME_BUF_SIZE
            /\ Fail("TMPL_ERR_PARSE", MSG_DIRECTIVE_TOO_LONG, tag_block_start,
                    out_after_tag)

\* p = endfor + strlen("{% endfor %}")
after_endfor(endfor) == endfor + Len(ENDFOR_TEXT)

\* faulty variant of is_valid_array: any variable that exists will do
is_valid_array_any_type(arr) == arr.found

\* arr && arr->type == TMPL_ARRAY
is_valid_array(arr) == arr.found /\ arr.val.type = "TMPL_ARRAY"

\* {% for item in items %}
DirectiveFor ==
    /\ DirectiveReady
    /\ IsFor
    /\ LET tokens == strtok_all(cmd)
           parts == [i \in 1..4 |-> IF i <= Len(tokens) THEN tokens[i] ELSE NULL_STR]
           arr == context_get(ctx, parts[4])
           pushed == loop_stack_push(loop_stack, arr.val, parts[2], p_after_tag)
           endfor == strstr(tpl, p_after_tag, ENDFOR_TEXT)
       IN  IF should_skip
           THEN Continue(p_after_tag, out_after_tag, loop_stack, conditional_stack)
           ELSE IF \/ \E i \in 1..4 : parts[i] = NULL_STR
                   \/ parts[1] # KW_FOR
                   \/ parts[3] # KW_IN
           THEN Fail("TMPL_ERR_SYNTAX", MSG_INVALID_FOR, tag_block_start, out_after_tag)
           ELSE IF ~is_valid_array(arr)
           THEN Fail("TMPL_ERR_RENDER", MSG_NOT_ARRAY, tag_block_start, out_after_tag)
           ELSE IF arr.val.value.array.count = 0
           THEN Continue(IF endfor # 0 THEN after_endfor(endfor) ELSE p_after_tag,
                         out_after_tag, loop_stack_pop(pushed), conditional_stack)
           ELSE Continue(p_after_tag, out_after_tag, pushed, conditional_stack)

\* faulty variant of step_index: the index is left as it is
step_index_forgotten(stack) == stack

\* current_loop->index++
step_index(stack) == [stack EXCEPT !.frames[Len(stack.frames)].index = @ + 1]

\* faulty variant of loop_continues: the loop stops one element early
loop_continues_stops_early(frame) == frame.index + 2 < frame.array.value.array.count

\* faulty variant of loop_continues: the loop goes round once more
loop_continues_once_more(frame) == frame.index < frame.array.value.array.count

\* after current_loop->index++: index < count, the loop goes round again
loop_continues(frame) == frame.index + 1 < frame.array.value.array.count

\* {% endfor %}
DirectiveEndfor ==
    /\ DirectiveReady
    /\ IsEndfor
    /\ IF should_skip
       THEN Continue(p_after_tag, out_after_tag, loop_stack, conditional_stack)
       ELSE IF ~loop_stack_has_top(loop_stack)
       THEN Fail("TMPL_ERR_SYNTAX", MSG_ENDFOR_NO_FOR, tag_block_start, out_after_tag)
       ELSE LET current_loop == loop_stack_top(loop_stack)
                stepped == step_index(loop_stack)
            IN  IF loop_continues(current_loop)
                THEN Continue(current_loop.loop_start, out_after_tag, stepped,
                              conditional_stack)
                ELSE Continue(p_after_tag, out_after_tag, loop_stack_pop(stepped),
                              conditional_stack)

\* {% if condition %}
DirectiveIf ==
    /\ DirectiveReady
    /\ IsIf
    /\ LET ev == evaluate_condition(SubSeq(cmd, 4, Len(cmd)), p_after_tag)
           pushed == conditional_stack_push(conditional_stack, ev.result, p_after_tag)
           depth == Len(pushed.frames)
           else_pos == strstr(tpl, p_after_tag, ELSE_TEXT)
           endif_pos == strstr(tpl, p_after_tag, ENDIF_TEXT)
       IN  IF ev.err.type # "TMPL_ERR_NONE"
           THEN ReturnFalse(ev.err, out_after_tag)
           ELSE IF ev.result
           THEN Continue(p_after_tag, out_after_tag, loop_stack, pushed)
           ELSE IF else_pos # 0 /\ (endif_pos = 0 \/ else_pos < endif_pos)
           THEN Continue(SkipNewlines(else_pos + Len(ELSE_TEXT)), out_after_tag,
                         loop_stack,
                         [pushed EXCEPT !.frames[depth].in_else_branch = TRUE])
           ELSE IF endif_pos # 0
           THEN Continue(SkipNewlines(endif_pos + Len(ENDIF_TEXT)), out_after_tag,
                         loop_stack, conditional_stack_pop(pushed))
           ELSE Continue(SkipNewlines(p_after_tag), out_after_tag, loop_stack, pushed)

\* {% else %}
DirectiveElse ==
    /\ DirectiveReady
    /\ IsElse
    /\ IF ~conditional_stack_has_top(conditional_stack)
       THEN Fail("TMPL_ERR_SYNTAX", MSG_ELSE_NO_IF, tag_block_start, out_after_tag)
       ELSE LET current_cond == conditional_stack_top(conditional_stack)
                depth == Len(conditional_stack.frames)
                flagged == [conditional_stack EXCEPT
                               !.frames[depth].in_else_branch = TRUE]
                endif_pos == strstr(tpl, p_after_tag, ENDIF_TEXT)
            IN  IF current_cond.condition_met /\ endif_pos # 0
                THEN Continue(SkipNewlines(endif_pos + Len(ENDIF_TEXT)), out_after_tag,
                              loop_stack, conditional_stack_pop(flagged))
                ELSE Continue(p_after_tag, out_after_tag, loop_stack, flagged)

\* {% endif %}
DirectiveEndif ==
    /\ DirectiveReady
    /\ IsEndif
    /\ IF ~conditional_stack_has_top(conditional_stack)
       THEN Fail("TMPL_ERR_SYNTAX", MSG_ENDIF_NO_IF, tag_block_start, out_after_tag)
       ELSE Continue(p_after_tag, out_after_tag, loop_stack,
                     conditional_stack_pop(conditional_stack))

\* a directive that is none of for, endfor, if, else, endif: no branch takes it
DirectiveUnknown ==
    /\ DirectiveReady
    /\ ~IsFor /\ ~IsEndfor /\ ~IsIf /\ ~IsElse /\ ~IsEndif
    /\ Continue(p_after_tag, out_after_tag, loop_stack, conditional_stack)

\* any other character: appended unless skipping
LiteralText ==
    /\ Scanning
    /\ ~AtVarOpen
    /\ ~AtDirOpen
    /\ Continue(p + 1,
                IF should_skip THEN out ELSE buffer_append(out, <<tpl[p]>>),
                loop_stack, conditional_stack)

\* free(stack.frames) after popping every frame
stack_release(stack) == [stack EXCEPT !.frames = <<>>, !.allocated = FALSE]

\* faulty variant of EndOfInput: the open loop is reported before the comment
EndOfInput_loop_first ==
    /\ ret = "running"
    /\ AtEnd
    /\ IF loop_stack_has_top(loop_stack)
       THEN Fail("TMPL_ERR_SYNTAX", MSG_UNCLOSED_FOR, p, out)
       ELSE IF in_comment /\ last_comment # 0
       THEN Fail("TMPL_ERR_SYNTAX", MSG_UNTERMINATED_COMMENT, last_comment, out)
       ELSE IF conditional_stack_has_top(conditional_stack)
       THEN Fail("TMPL_ERR_SYNTAX", MSG_UNCLOSED_IF, p, out)
       ELSE /\ ret' = "true"
            /\ loop_stack' = stack_release(loop_stack)
            /\ conditional_stack' = stack_release(conditional_stack)
            /\ UNCHANGED <<input, tpl, ctx, other, sched, p, out, in_comment, last_comment, err>>

\* the checks after the loop, and the cleanup
EndOfInput ==
    /\ ret = "running"
    /\ AtEnd
    /\ IF in_comment /\ last_comment # 0
       THEN Fail("TMPL_ERR_SYNTAX", MSG_UNTERMINATED_COMMENT, last_comment, out)
       ELSE IF loop_stack_has_top(loop_stack)
       THEN Fail("TMPL_ERR_SYNTAX", MSG_UNCLOSED_FOR, p, out)
       ELSE IF conditional_stack_has_top(conditional_stack)
       THEN Fail("TMPL_ERR_SYNTAX", MSG_UNCLOSED_IF, p, out)
       ELSE /\ ret' = "true"
            /\ loop_stack' = stack_release(loop_stack)
            /\ conditional_stack' = stack_release(conditional_stack)
            /\ UNCHANGED <<input, tpl, ctx, other, sched, p, out, in_comment, last_comment, err>>

(***************************************************************************)
(* Two calls of render_template over one context                           *)
(***************************************************************************)

\* a call that has not taken a step: the caller's buffer_init(&out, 0) and
\* zeroed *err, and the locals as render_template initialises them
FreshCall(template) ==
    [tpl |-> template,
     p |-> 1,
     out |-> buffer_init(0),
     loop_stack |-> stack_init(INITIAL_STACK_CAPACITY),
     conditional_stack |-> stack_init(INITIAL_STACK_CAPACITY),
     in_comment |-> FALSE,
     last_comment |-> 0,
     err |-> NoError,
     ret |-> "running"]

\* the call the variables belong to
ThisCall ==
    [tpl |-> tpl,
     p |-> p,
     out |-> out,
     loop_stack |-> loop_stack,
     conditional_stack |-> conditional_stack,
     in_comment |-> in_comment,
     last_comment |-> last_comment,
     err |-> err,
     ret |-> ret]

\* faulty variant of own_conditional_stack: one stack in static storage, which
\* every call finds as the last call left it
own_conditional_stack_static(call) == conditional_stack

\* ConditionalStack conditional_stack is an automatic variable: a call works
\* on its own
own_conditional_stack(call) == call.conditional_stack

\* faulty variant of own_position: one scan position in static storage
own_position_static(call) == p

\* const char* p is an automatic variable: a call resumes where it stopped
own_position(call) == call.p

\* the other call runs next; this one keeps its template, its locals and its
\* out and err for when it is resumed. The context is shared.
Switch ==
    /\ other.ret = "running"
    /\ other' = ThisCall
    /\ tpl' = other.tpl
    /\ p' = own_position(other)
    /\ out' = other.out
    /\ loop_stack' = other.loop_stack
    /\ conditional_stack' = own_conditional_stack(other)
    /\ in_comment' = other.in_comment
    /\ last_comment' = other.last_comment
    /\ err' = other.err
    /\ ret' = other.ret
    /\ sched' = [running |-> 3 - sched.running,
                 interleaved |-> sched.interleaved \/ (ret = "running" /\ p # 1)]
    /\ UNCHANGED <<input, ctx>>

(***************************************************************************)
(* Inputs: the templates and contexts a render call is given               *)
(***************************************************************************)

\* the largest element count of the arrays A and B
MaxCount == 3

\* the longest run of whitespace put around a name inside {{ }}
MaxPad == 2

\* the longest literal-only template
MaxLiteralLen == 3

SP == <<" ">>

NL == <<"\n">>

Letters == <<"a", "b", "c", "d", "e", "f", "g", "h", "i", "j">>

RECURSIVE Flatten(_)
\* the concatenation of a sequence of character sequences
Flatten(ss) == IF ss = <<>> THEN <<>> ELSE Head(ss) \o Flatten(Tail(ss))

\* n copies of s
Repeat(s, n) == [i \in 1..(n * Len(s)) |-> s[((i - 1) % Len(s)) + 1]]

\* {{ name }} with the given whitespace around the name
VarPadded(before, name, after) == Flatten(<<VAR_OPEN, before, name, after, VAR_CLOSE>>)

\* {{ name }}
Var(name) == VarPadded(SP, name, SP)

\* {% text %}
Dir(text) == Flatten(<<DIR_OPEN, SP, text, SP, DIR_CLOSE>>)

\* {% for item in items %}
For(item, items) == Dir(Flatten(<<KW_FOR, SP, item, SP, KW_IN, SP, items>>))

\* {% if condition %}
If(condition) == Dir(KW_IF_SP \o condition)

\* the text of element i (1-based) of the arrays A and B
ElemA(i) == <<Letters[i]>>

ElemB(i) == UnsignedDigits(i)

ArrayA(n) == VAR_ARRAY([i \in 1..n |-> StrItem(ElemA(i))], "TMPL_STRING")

ArrayB(n) == VAR_ARRAY([i \in 1..n |-> StrItem(ElemB(i))], "TMPL_STRING")

\* "hi"
TEXT_S == <<"h", "i">>

\* the context of a render: arrays A, B (nA and nB elements) and E (empty),
\* the guards c and d, a string s and an int n
Ctx(nA, nB, cv, dv) ==
    <<TemplateVar(<<"A">>, ArrayA(nA)),
      TemplateVar(<<"B">>, ArrayB(nB)),
      TemplateVar(<<"E">>, VAR_ARRAY(<<>>, "TMPL_STRING")),
      TemplateVar(<<"c">>, cv),
      TemplateVar(<<"d">>, dv),
      TemplateVar(<<"s">>, VAR_STRING(TEXT_S)),
      TemplateVar(<<"n">>, VAR_INT(30))>>

\* A piece of branch or body text: what it is in the template (src) and what
\* it is to render to (exp); exp of a loop variable is a placeholder that
\* the current element replaces.
Lit(t) == [kind |-> "lit", src |-> t, exp |-> t]

LoopVar(v) == [kind |-> "loopvar", src |-> Var(v), exp |-> <<>>]

CtxVar(name, text) == [kind |-> "ctxvar", src |-> Var(name), exp |-> text]

RECURSIVE Src(_)
\* the template text of a sequence of pieces
Src(pieces) == IF pieces = <<>> THEN <<>> ELSE Head(pieces).src \o Src(Tail(pieces))

RECURSIVE Exp(_, _)
\* the expected rendering of a sequence of pieces, elem being the loop element
Exp(pieces, elem) ==
    IF pieces = <<>> THEN <<>>
    ELSE (IF Head(pieces).kind = "loopvar" THEN elem ELSE Head(pieces).exp)
         \o Exp(Tail(pieces), elem)

\* a piece with a fixed source text and a fixed expected rendering
Piece(src, exp) == [kind |-> "fixed", src |-> src, exp |-> exp]

\* {% for v in B %}{{ v }}{% endfor %} as a piece, B holding the single element 1
LoopPiece ==
    Piece(Flatten(<<For(<<"v">>, <<"B">>), Var(<<"v">>), ENDFOR_TEXT>>), ElemB(1))

\* a directive stands alone on its line somewhere in t (section 4.5 of the spec)
HasStandaloneDirective(t) ==
    \E i \in 1..Len(t) :
        /\ MatchAt(t, i, DIR_OPEN)
        /\ LET j == strstr(t, i + 2, DIR_CLOSE)
               before == {k \in 1..(i - 1) :
                             \A m \in k..(i - 1) : t[m] # "\n"}
               after == {k \in (j + 2)..Len(t) :
                            \A m \in (j + 2)..k : t[m] # "\n"}
           IN  /\ j # 0
               /\ \A k \in before : isspace(t[k])
               /\ \A k \in after : isspace(t[k])

RECURSIVE StripLeadingNewlines(_)
StripLeadingNewlines(t) ==
    IF t # <<>> /\ Head(t) = "\n" THEN StripLeadingNewlines(Tail(t)) ELSE t

(***************************************************************************)
(* Single loops: {% for v in A %}BODY{% endfor %}                          *)
(***************************************************************************)

\* BODY: literal text and substitutions, no block directives
LoopBodies ==
    {<<LoopVar(<<"v">>), Lit(<<",", " ">>)>>,
     <<Lit(<<"x">>)>>,
     <<Lit(<<"[">>), LoopVar(<<"v">>), Lit(<<"]">>), LoopVar(<<"v">>)>>,
     <<LoopVar(<<"v">>), CtxVar(<<"s">>, TEXT_S)>>,
     <<Lit(<<"x", "\n", "y">>)>>,
     <<LoopVar(<<"v">>), Lit(NL)>>,
     <<CtxVar(<<"n">>, <<"3", "0">>), Lit(<<"-">>), LoopVar(<<"v">>)>>}

LoopTemplate(body) == Flatten(<<For(<<"v">>, <<"A">>), Src(body), ENDFOR_TEXT>>)

LoopInputs ==
    {[family |-> "loop", tpl |-> LoopTemplate(body),
      ctx |-> Ctx(n, 1, VAR_BOOL(TRUE), VAR_BOOL(TRUE)), body |-> body, n |-> n] :
        body \in LoopBodies, n \in 1..MaxCount}

\* what the loop is to render: the body once per element, in array order
RECURSIVE ExpectedLoop(_, _, _)
ExpectedLoop(body, i, n) ==
    IF i > n THEN <<>> ELSE Exp(body, ElemA(i)) \o ExpectedLoop(body, i + 1, n)

(***************************************************************************)
(* Literal-only templates                                                  *)
(***************************************************************************)

LiteralChars == {"a", " ", "\n", "{", "}", "%", "-", ">"}

RECURSIVE SeqsUpTo(_, _)
\* the sequences over S of length at most n
SeqsUpTo(S, n) ==
    IF n = 0 THEN {<<>>}
    ELSE LET shorter == SeqsUpTo(S, n - 1)
         IN  shorter \cup {Append(t, x) : t \in shorter, x \in S}

\* no "{{", no "{%", no comment marker
IsLiteralOnly(t) ==
    /\ strstr(t, 1, VAR_OPEN) = 0
    /\ strstr(t, 1, DIR_OPEN) = 0
    /\ strstr(t, 1, COMMENT_OPEN) = 0
    /\ strstr(t, 1, COMMENT_CLOSE) = 0

LiteralTemplates == {t \in SeqsUpTo(LiteralChars, MaxLiteralLen) : IsLiteralOnly(t)}

LiteralInputs ==
    {[family |-> "literal", tpl |-> t,
      ctx |-> Ctx(1, 1, VAR_BOOL(TRUE), VAR_BOOL(TRUE))] : t \in LiteralTemplates}

(***************************************************************************)
(* One conditional: {% if c %}T{% else %}E{% endif %}, else part optional  *)
(***************************************************************************)

\* values of the guard c, each with the truth value it is to have
GuardValues ==
    {[val |-> VAR_BOOL(TRUE), truthy |-> TRUE],
     [val |-> VAR_BOOL(FALSE), truthy |-> FALSE],
     [val |-> VAR_INT(7), truthy |-> TRUE],
     [val |-> VAR_INT(0), truthy |-> FALSE],
     [val |-> VAR_STRING(TEXT_S), truthy |-> TRUE],
     [val |-> VAR_STRING(<<>>), truthy |-> FALSE],
     [val |-> ArrayB(1), truthy |-> TRUE],
     [val |-> VAR_ARRAY(<<>>, "TMPL_STRING"), truthy |-> FALSE]}

ThenBranches ==
    {<<Lit(<<"T">>)>>,
     <<CtxVar(<<"s">>, TEXT_S)>>,
     <<Lit(<<"T", "\n", "U">>)>>,
     <<Lit(<<"T">>), LoopPiece>>,
     <<Lit(<<"\n", "T">>)>>}

ElseBranches ==
    {<<Lit(<<"E">>)>>,
     <<Lit(<<"\n", "E">>)>>,
     <<Lit(<<"\n", "\n", "E", "\n", "F">>)>>,
     <<CtxVar(<<"n">>, <<"3", "0">>)>>,
     <<Lit(<<" ", "E">>)>>,
     <<LoopPiece, Lit(<<"E">>)>>}

CondTemplate(T, has_else, E) ==
    Flatten(<<If(<<"c">>), Src(T),
              IF has_else THEN ELSE_TEXT \o Src(E) ELSE <<>>, ENDIF_TEXT>>)

CondInputs ==
    {[family |-> "cond", tpl |-> CondTemplate(T, has_else, E),
      ctx |-> Ctx(1, 1, g.val, VAR_BOOL(TRUE)),
      T |-> T, has_else |-> has_else, E |-> IF has_else THEN E ELSE <<>>,
      truthy |-> g.truthy,
      standalone |-> HasStandaloneDirective(CondTemplate(T, has_else, E))] :
        T \in ThenBranches, has_else \in BOOLEAN, E \in ElseBranches, g \in GuardValues}

(***************************************************************************)
(* One substitution: L1 {{ name }} L2 with whitespace around the name      *)
(***************************************************************************)

\* runs of whitespace of length at most MaxPad
Pads == SeqsUpTo({" ", "\n"}, MaxPad)

\* the longest run of spaces that still fits a one-character name into
\* var_name, and the shortest that no longer does
LongPads == {Repeat(SP, NAME_BUF_SIZE - 2), Repeat(SP, NAME_BUF_SIZE - 1)}

\* context keys, each with the text its value is to render to
SubstNames ==
    {[name |-> <<"s">>, text |-> TEXT_S],
     [name |-> <<"n">>, text |-> <<"3", "0">>],
     [name |-> <<"c">>, text |-> STR_TRUE]}

\* "Hello "
TEXT_HELLO ==
    <<"H", "e", "l", "l", "o", " ">>

SubstBefore == {<<>>, TEXT_HELLO}

SubstAfter == {<<>>, <<",", "\n", "x">>}

SubstInput(l1, before, nm, after, l2) ==
    [family |-> "subst",
     tpl |-> Flatten(<<l1, VarPadded(before, nm.name, after), l2>>),
     ctx |-> Ctx(1, 1, VAR_BOOL(TRUE), VAR_BOOL(TRUE)),
     l1 |-> l1, l2 |-> l2, text |-> nm.text,
     var_len |-> Len(before) + Len(nm.name) + Len(after)]

SubstInputs ==
    {SubstInput(l1, before, nm, after, l2) :
        l1 \in SubstBefore, before \in Pads, nm \in SubstNames, after \in Pads,
        l2 \in SubstAfter}
    \cup
    {SubstInput(TEXT_HELLO, before, nm, <<>>, <<>>) :
        before \in LongPads, nm \in {x \in SubstNames : x.name = <<"s">>}}

(***************************************************************************)
(* A substitution of a name the context does not hold                      *)
(***************************************************************************)

\* "age"
NAME_AGE ==
    <<"a", "g", "e">>

\* the longest name whose message fits msg[128], and the next longer one
LongNameFits == NAME_BUF_SIZE - Len(MISSING_FMT_HEAD) - Len(MISSING_FMT_TAIL) - 1

MissingNames ==
    {NAME_AGE, <<"v">>, <<"a", " ", "b">>,
     Repeat(<<"a">>, LongNameFits), Repeat(<<"a">>, LongNameFits + 1)}

\* the text around the marker: top level, a later line, a loop body with
\* another loop variable, the taken branch of a conditional
MissingFrames ==
    {[before |-> <<>>, after |-> <<>>],
     [before |-> <<"x", "\n", "y", "\n">>, after |-> <<"z">>],
     [before |-> For(<<"w">>, <<"A">>), after |-> ENDFOR_TEXT],
     [before |-> If(<<"c">>), after |-> ENDIF_TEXT],
     [before |-> If(<<"d">>) \o <<"T">> \o ELSE_TEXT, after |-> ENDIF_TEXT]}

MissingInputs ==
    {[family |-> "missing",
      tpl |-> Flatten(<<f.before, Var(name), f.after>>),
      ctx |-> Ctx(2, 1, VAR_BOOL(TRUE), VAR_BOOL(FALSE)),
      name |-> name] :
        f \in MissingFrames, name \in MissingNames}

(***************************************************************************)
(* Two nested loops                                                        *)
(***************************************************************************)

NestedOuterFor == For(<<"a">>, <<"A">>)

NestedInnerFor == For(<<"b">>, <<"B">>)

\* {% for a in A %}{{ a }}{% for b in B %}{{ b }}{% endfor %}{% endfor %}
NestedTemplate ==
    Flatten(<<NestedOuterFor, Var(<<"a">>), NestedInnerFor, Var(<<"b">>),
              ENDFOR_TEXT, ENDFOR_TEXT>>)

\* where the inner for and the outer endfor start
NestedInnerForPos == Len(NestedOuterFor) + Len(Var(<<"a">>)) + 1

NestedOuterEndforPos == Len(NestedTemplate) - Len(ENDFOR_TEXT) + 1

NestedInputs ==
    {[family |-> "nested", tpl |-> NestedTemplate,
      ctx |-> Ctx(m, n, VAR_BOOL(TRUE), VAR_BOOL(TRUE)), m |-> m, n |-> n] :
        m \in 1..MaxCount, n \in 1..MaxCount}

RECURSIVE ExpectedInner(_, _)
\* elements j..n of B
ExpectedInner(j, n) == IF j > n THEN <<>> ELSE ElemB(j) \o ExpectedInner(j + 1, n)

RECURSIVE ExpectedNested(_, _, _)
\* for each element of A from i on: the element, then all of B
ExpectedNested(i, m, n) ==
    IF i > m THEN <<>>
    ELSE ElemA(i) \o ExpectedInner(1, n) \o ExpectedNested(i + 1, m, n)

(***************************************************************************)
(* Nested conditionals over the guards c and d                             *)
(***************************************************************************)

\* The inner block sits in the outer block's then-branch ("then") or in its
\* else-branch ("else"); then_exp and else_exp give the rendering of the outer
\* branches as functions of the inner guard d.
NestedCondShapes ==
    {[tpl |-> Flatten(<<If(<<"c">>), <<"1">>, If(<<"d">>), <<"2">>, ELSE_TEXT,
                        <<"3">>, ENDIF_TEXT, ENDIF_TEXT>>),
      inner_in |-> "then",
      exp |-> [cd \in BOOLEAN \X BOOLEAN |->
                  IF cd[1] THEN (IF cd[2] THEN <<"1", "2">> ELSE <<"1", "3">>)
                  ELSE <<>>]],
     [tpl |-> Flatten(<<If(<<"c">>), If(<<"d">>), <<"2">>, ELSE_TEXT, <<"3">>,
                        ENDIF_TEXT, <<"1">>, ELSE_TEXT, <<"4">>, ENDIF_TEXT>>),
      inner_in |-> "then",
      exp |-> [cd \in BOOLEAN \X BOOLEAN |->
                  IF cd[1] THEN (IF cd[2] THEN <<"2", "1">> ELSE <<"3", "1">>)
                  ELSE <<"4">>]],
     [tpl |-> Flatten(<<If(<<"c">>), <<"1">>, ELSE_TEXT, If(<<"d">>), <<"2">>,
                        ENDIF_TEXT, <<"4">>, ENDIF_TEXT>>),
      inner_in |-> "else",
      exp |-> [cd \in BOOLEAN \X BOOLEAN |->
                  IF cd[1] THEN <<"1">>
                  ELSE (IF cd[2] THEN <<"2", "4">> ELSE <<"4">>)]],
     [tpl |-> Flatten(<<If(<<"c">>), <<"1">>, ELSE_TEXT, <<"4">>, If(<<"d">>),
                        <<"2">>, ELSE_TEXT, <<"3">>, ENDIF_TEXT, ENDIF_TEXT>>),
      inner_in |-> "else",
      exp |-> [cd \in BOOLEAN \X BOOLEAN |->
                  IF cd[1] THEN <<"1">>
                  ELSE (IF cd[2] THEN <<"4", "2">> ELSE <<"4", "3">>)]],
     [tpl |-> Flatten(<<If(<<"c">>), <<"1">>, If(<<"d">>), Var(<<"s">>), ELSE_TEXT,
                        Var(<<"n">>), ENDIF_TEXT, ENDIF_TEXT>>),
      inner_in |-> "then",
      exp |-> [cd \in BOOLEAN \X BOOLEAN |->
                  IF cd[1] THEN (IF cd[2] THEN <<"1">> \o TEXT_S ELSE <<"1", "3", "0">>)
                  ELSE <<>>]]}

NestedCondInputs ==
    {[family |-> "nestedcond", tpl |-> sh.tpl,
      ctx |-> Ctx(1, 1, VAR_BOOL(c), VAR_BOOL(d)),
      c |-> c, d |-> d, inner_in |-> sh.inner_in, expected |-> sh.exp[<<c, d>>]] :
        sh \in NestedCondShapes, c \in BOOLEAN, d \in BOOLEAN}

\* "{% if "
IF_HEAD ==
    <<"{", "%", " ", "i", "f", " ">>

\* where the if directives of t start
IfStarts(t) == {i \in 1..Len(t) : MatchAt(t, i, IF_HEAD)}

\* where the endif directives of t start
EndifStarts(t) == {i \in 1..Len(t) : MatchAt(t, i, ENDIF_TEXT)}

\* the endif that textually closes the if starting at i: the first one after
\* i with as many ifs as endifs in between
MatchingEndif(t, i) ==
    LET balanced == {e \in EndifStarts(t) :
                        /\ e > i
                        /\ Cardinality({x \in IfStarts(t) : i < x /\ x < e})
                               = Cardinality({x \in EndifStarts(t) : i < x /\ x < e})}
    IN  IF balanced = {} THEN 0
        ELSE CHOOSE e \in balanced : \A x \in balanced : e <= x

\* the ifs whose block the position q lies in: q is past the if directive
\* and not past its closing endif
OpenIfs(t, q) ==
    {i \in IfStarts(t) :
        /\ strstr(t, i, DIR_CLOSE) + 2 <= q
        /\ MatchingEndif(t, i) # 0
        /\ q < MatchingEndif(t, i) + Len(ENDIF_TEXT)}

\* the if_start a frame pushed by the if at i holds (no directive standalone)
IfBodyStart(t, i) == strstr(t, i, DIR_CLOSE) + 2

(***************************************************************************)
(* A loop over the empty array E: P{% for v in E %}BODY{% endfor %}S       *)
(***************************************************************************)

\* "undefined"
NAME_UNDEFINED ==
    <<"u", "n", "d", "e", "f", "i", "n", "e", "d">>

\* BODY, and whether it holds a loop of its own
EmptyLoopBodies ==
    {[src |-> <<"x">>, nested |-> FALSE],
     [src |-> Var(<<"v">>), nested |-> FALSE],
     [src |-> Var(NAME_UNDEFINED), nested |-> FALSE],
     [src |-> <<"x", "\n", "y">>, nested |-> FALSE],
     [src |-> Flatten(<<If(<<"c">>), <<"T">>, ENDIF_TEXT>>), nested |-> FALSE],
     [src |-> Flatten(<<For(<<"w">>, <<"A">>), <<"y">>, ENDFOR_TEXT, <<"z">>>>),
      nested |-> TRUE],
     [src |-> Flatten(<<<<"x">>, For(<<"w">>, <<"E">>), <<"y">>, ENDFOR_TEXT>>),
      nested |-> TRUE]}

EmptyLoopFor == For(<<"v">>, <<"E">>)

EmptyLoopInputs ==
    {[family |-> "emptyloop",
      tpl |-> Flatten(<<pre, EmptyLoopFor, b.src, ENDFOR_TEXT, post>>),
      ctx |-> Ctx(2, 1, VAR_BOOL(TRUE), VAR_BOOL(TRUE)),
      nested |-> b.nested, pre |-> pre, post |-> post,
      for_pos |-> Len(pre) + 1,
      after_pos |-> Len(pre) + Len(EmptyLoopFor) + Len(b.src) + Len(ENDFOR_TEXT) + 1] :
        b \in EmptyLoopBodies, pre \in {<<>>, <<"p">>},
        post \in {<<>>, <<"z">>, <<"\n", "z">>}}

(***************************************************************************)
(* Directives that stand alone on their lines                              *)
(***************************************************************************)

\* a line holding only a directive: indentation, directive, trailing blanks
DirLine(indent, directive, trail) == Flatten(<<indent, directive, trail, NL>>)

\* "Hello\n"
LINE_HELLO ==
    <<"H", "e", "l", "l", "o", "\n">>

\* "World"
LINE_WORLD ==
    <<"W", "o", "r", "l", "d">>

Indents == {<<>>, <<" ", " ">>}

Trails == {<<>>, <<" ">>}

\* Hello / {% if c %} / {{ s }} / {% endif %} / World
LinesIf ==
    {[family |-> "lines", shape |-> "if",
      tpl |-> Flatten(<<LINE_HELLO, DirLine(ind, If(<<"c">>), tr),
                        ind, ind, Var(<<"s">>), NL,
                        DirLine(ind, ENDIF_TEXT, tr), LINE_WORLD>>),
      ctx |-> Ctx(1, 1, VAR_BOOL(c), VAR_BOOL(TRUE)),
      expected |-> IF c THEN Flatten(<<LINE_HELLO, ind, ind, TEXT_S, NL, LINE_WORLD>>)
                   ELSE LINE_HELLO \o LINE_WORLD] :
        ind \in Indents, tr \in Trails, c \in BOOLEAN}

\* a / {% if c %} / T / {% else %} / E / {% endif %} / end
LinesIfElse ==
    {[family |-> "lines", shape |-> "ifelse",
      tpl |-> Flatten(<<<<"a", "\n">>, DirLine(ind, If(<<"c">>), tr), <<"T", "\n">>,
                        DirLine(ind, ELSE_TEXT, tr), <<"E", "\n">>,
                        DirLine(ind, ENDIF_TEXT, tr), <<"e", "n", "d">>>>),
      ctx |-> Ctx(1, 1, VAR_BOOL(c), VAR_BOOL(TRUE)),
      expected |-> IF c THEN <<"a", "\n", "T", "\n", "e", "n", "d">>
                   ELSE <<"a", "\n", "E", "\n", "e", "n", "d">>] :
        ind \in Indents, tr \in Trails, c \in BOOLEAN}

RECURSIVE ExpectedLines(_, _)
\* one line per element i..n of A
ExpectedLines(i, n) ==
    IF i > n THEN <<>> ELSE ElemA(i) \o NL \o ExpectedLines(i + 1, n)

\* a / {% for v in A %} / {{ v }} / {% endfor %} / end
LinesFor ==
    {[family |-> "lines", shape |-> "for",
      tpl |-> Flatten(<<<<"a", "\n">>, DirLine(ind, For(<<"v">>, <<"A">>), tr),
                        Var(<<"v">>), NL,
                        DirLine(ind, ENDFOR_TEXT, tr), <<"e", "n", "d">>>>),
      ctx |-> Ctx(n, 1, VAR_BOOL(TRUE), VAR_BOOL(TRUE)),
      expected |-> Flatten(<<<<"a", "\n">>, ExpectedLines(1, n), <<"e", "n", "d">>>>)] :
        ind \in Indents, tr \in Trails, n \in 0..MaxCount}

LinesInputs == LinesIf \cup LinesIfElse \cup LinesFor

(***************************************************************************)
(* Further templates: comments, malformed and unmatched directives         *)
(***************************************************************************)

MiscTemplates ==
    {<<"x", "<", "!", "-", "-", " ", "c", " ", "-", "-", ">", "y">>,
     <<"x", "-", "-", ">", "y">>,
     <<"x", "\n", "<", "!", "-", "-", " ", "y">>,
     <<"x", "{", "%", " ", "i", "f", " ", "c">>,
     <<"x", "{", "{", " ", "s">>,
     Flatten(<<<<" ", "\n", " ">>, DIR_OPEN, Repeat(<<"a">>, NAME_BUF_SIZE), DIR_CLOSE>>),
     Flatten(<<Dir(<<"f", "o", "o">>), <<"x">>>>),
     Flatten(<<<<"x">>, ENDFOR_TEXT>>),
     Flatten(<<<<"x">>, ELSE_TEXT>>),
     Flatten(<<<<"x">>, ENDIF_TEXT>>),
     Dir(<<"f", "o", "r", " ", "v", " ", "A">>),
     For(<<"v">>, <<"s">>),
     Flatten(<<<<"x", "\n">>, If(<<"z", "z">>), <<"y">>>>),
     Flatten(<<If(<<"c">>), <<"x">>>>),
     Flatten(<<For(<<"v">>, <<"A">>), <<"x">>>>),
     Flatten(<<<<"x">>, If(<<"c">>), <<"a">>, ENDIF_TEXT, NL,
               If(<<"d">>), NL, <<"y">>, ENDIF_TEXT>>),
     Flatten(<<If(<<"c">>), <<"x">>, ELSE_TEXT, NL, ENDIF_TEXT, NL,
               If(<<"d">>), NL, <<"y">>, ENDIF_TEXT>>),
     Flatten(<<<<"x", "\n">>, For(<<"v">>, <<"A">>), If(<<"s">>), <<"y", "\n">>,
               COMMENT_OPEN, <<" ", "z", "\n">>, ENDIF_TEXT, ENDFOR_TEXT>>)}

MiscInputs ==
    {[family |-> "misc", tpl |-> t, ctx |-> Ctx(2, 1, VAR_BOOL(c), VAR_BOOL(d))] :
        t \in MiscTemplates, c \in BOOLEAN, d \in BOOLEAN}

(***************************************************************************)
(* A comment between two texts: L1 <!--BODY--> L2                          *)
(***************************************************************************)

\* what the comment holds: text, markers and directives that would fail or
\* act if they were executed
CommentBodies ==
    {<<" ", "c", " ">>, Var(NAME_UNDEFINED), <<"{", "{", " ", "s">>,
     <<"{", "%", " ", "i", "f">>, If(<<"c">>), ENDFOR_TEXT, <<"\n", "<", "!", "-", "-">>}

\* the texts around the comment, each with what it is to render to
CommentBefore == {Lit(<<>>), Lit(<<"x">>), Lit(<<"x", "\n">>)}

CommentAfter == {Lit(<<>>), Lit(<<"y">>), Lit(<<"\n", "y">>), CtxVar(<<"s">>, TEXT_S)}

CommentInputs ==
    {[family |-> "comment",
      tpl |-> Flatten(<<b.src, COMMENT_OPEN, body, COMMENT_CLOSE, a.src>>),
      ctx |-> Ctx(1, 1, VAR_BOOL(TRUE), VAR_BOOL(FALSE)),
      open_pos |-> Len(b.src) + 1,
      expected |-> b.exp \o a.exp] :
        b \in CommentBefore, body \in CommentBodies, a \in CommentAfter}

(***************************************************************************)
(* Conditions: a boolean expression, and a name the context does not hold  *)
(***************************************************************************)

\* "a and (not b or c)"
COND_EXPRESSION ==
    <<"a", " ", "a", "n", "d", " ", "(", "n", "o", "t", " ", "b", " ", "o", "r",
      " ", "c", ")">>

\* "message"
NAME_MESSAGE ==
    <<"m", "e", "s", "s", "a", "g", "e">>

\* "Success"
TEXT_SUCCESS ==
    <<"S", "u", "c", "c", "e", "s", "s">>

\* {% if a and (not b or c) %}{{ message }}{% endif %} under every value of
\* a, b and c
ExpressionInputs ==
    {[family |-> "expression",
      tpl |-> Flatten(<<If(COND_EXPRESSION), Var(NAME_MESSAGE), ENDIF_TEXT>>),
      ctx |-> <<TemplateVar(<<"a">>, VAR_BOOL(a)), TemplateVar(<<"b">>, VAR_BOOL(b)),
                TemplateVar(<<"c">>, VAR_BOOL(c)),
                TemplateVar(NAME_MESSAGE, VAR_STRING(TEXT_SUCCESS))>>,
      a |-> a, b |-> b, c |-> c] :
        a \in BOOLEAN, b \in BOOLEAN, c \in BOOLEAN}

\* the text before an if directive and the text after it, up to its endif
CondMissingBefore == {<<>>, <<"x", "\n">>, <<"x", "\n", "\n", " ", " ">>, <<"x", "\n", "y">>}

CondMissingAfter == {<<"y">>, <<"\n", "y">>, <<" ", "\n", "\n", "y">>}

\* P{% if name %}S{% endif %} with a name that is no context key, at top
\* level and inside a loop whose variable is another name
CondMissingInputs ==
    {[family |-> "condmissing",
      tpl |-> Flatten(<<IF in_loop THEN For(<<"v">>, <<"A">>) ELSE <<>>, before,
                        If(name), after, ENDIF_TEXT,
                        IF in_loop THEN ENDFOR_TEXT ELSE <<>>>>),
      ctx |-> Ctx(2, 1, VAR_BOOL(TRUE), VAR_BOOL(FALSE)),
      name |-> name,
      if_pos |-> (IF in_loop THEN Len(For(<<"v">>, <<"A">>)) ELSE 0) + Len(before) + 1] :
        in_loop \in BOOLEAN, before \in CondMissingBefore, after \in CondMissingAfter,
        name \in {<<"z", "z">>, NAME_UNDEFINED}}

(***************************************************************************)
(* for directives of every shape: {% for ... %}{{ v }}{% endfor %}         *)
(***************************************************************************)

\* the words after "for", each shape with its number of tokens and its third
\* token
ForShapes ==
    {[words |-> <<<<"v">>, KW_IN, <<"A">>>>, gap |-> SP],
     [words |-> <<<<"v">>, KW_IN, <<"A">>>>, gap |-> <<" ", " ">>],
     [words |-> <<<<"v">>>>, gap |-> SP],
     [words |-> <<<<"v">>, KW_IN>>, gap |-> SP],
     [words |-> <<<<"v">>, <<"A">>>>, gap |-> SP],
     [words |-> <<<<"v">>, <<"o", "f">>, <<"A">>>>, gap |-> SP],
     [words |-> <<<<"v">>, <<"A">>, KW_IN>>, gap |-> SP],
     [words |-> <<<<"v">>, KW_IN, <<"A">>, <<"B">>>>, gap |-> SP],
     [words |-> <<<<"v">>, KW_IN, <<"A">>, KW_IN, <<"B">>>>, gap |-> SP]}

RECURSIVE JoinWords(_, _)
\* the words, each preceded by the gap
JoinWords(words, gap) ==
    IF words = <<>> THEN <<>>
    ELSE gap \o Head(words) \o JoinWords(Tail(words), gap)

ForShapeInputs ==
    {[family |-> "forshape",
      tpl |-> Flatten(<<<<"x">>, Dir(KW_FOR \o JoinWords(sh.words, sh.gap)),
                        Var(<<"v">>), ENDFOR_TEXT>>),
      ctx |-> Ctx(n, 1, VAR_BOOL(TRUE), VAR_BOOL(FALSE)),
      n |-> n,
      tokens |-> 1 + Len(sh.words),
      third |-> IF Len(sh.words) >= 2 THEN sh.words[2] ELSE <<>>] :
        sh \in ForShapes, n \in 1..MaxCount}

(***************************************************************************)
(* A for over each kind of name, at top level and inside a loop over A     *)
(***************************************************************************)

\* names that are in no context, the loop variable of the outer loop among them
AbsentNames == {<<"z", "z">>, <<"w">>}

\* keys of Ctx whose value is not an array
ScalarNames == {<<"s">>, <<"n">>, <<"c">>}

ArrayNames == {<<"B">>, <<"E">>}

ForArrayInputs ==
    {[family |-> "forarray",
      tpl |-> Flatten(<<<<"x">>,
                        IF nested THEN For(<<"w">>, <<"A">>) \o Var(<<"w">>) ELSE <<>>,
                        For(<<"v">>, name), <<"y">>, ENDFOR_TEXT,
                        IF nested THEN ENDFOR_TEXT ELSE <<>> >>),
      ctx |-> Ctx(n, 1, VAR_BOOL(TRUE), VAR_BOOL(FALSE)),
      n |-> n,
      nested |-> nested,
      name |-> name] :
        n \in 1..MaxCount, nested \in BOOLEAN,
        name \in AbsentNames \cup ScalarNames \cup ArrayNames}

(***************************************************************************)
(* Blocks whose closing directives are spelled with and without spaces     *)
(***************************************************************************)

\* a closing directive in one of three spellings: {% word %}, {%word%},
\* {%  word  %}
Closer(word, spelling) ==
    CASE spelling = 0 -> Dir(word)
      [] spelling = 1 -> Flatten(<<DIR_OPEN, word, DIR_CLOSE>>)
      [] spelling = 2 -> Flatten(<<DIR_OPEN, SP, SP, word, SP, SP, DIR_CLOSE>>)

Spellings == 0..2

\* the guard c (true) or d (false); the array A (two elements) or E (none)
GuardName(g) == IF g THEN <<"c">> ELSE <<"d">>

CloserTemplate(shape, g, else_sp, end_sp) ==
    CASE shape = "if" ->
            Flatten(<<If(GuardName(g)), <<"a">>, Closer(KW_ENDIF, end_sp), <<"y">> >>)
      [] shape = "ifelse" ->
            Flatten(<<If(GuardName(g)), <<"a">>, Closer(KW_ELSE, else_sp), <<"b">>,
                      Closer(KW_ENDIF, end_sp), <<"y">> >>)
      [] shape = "for" ->
            Flatten(<<For(<<"v">>, IF g THEN <<"A">> ELSE <<"E">>), Var(<<"v">>),
                      Closer(KW_ENDFOR, end_sp), <<"y">> >>)
      [] shape = "stray" ->
            Flatten(<<If(GuardName(g)), ENDFOR_TEXT, <<"x">>,
                      Closer(KW_ENDIF, end_sp), <<"y">> >>)

CloserInputs ==
    {[family |-> "closers",
      tpl |-> CloserTemplate(shape, g, else_sp, end_sp),
      ctx |-> Ctx(2, 1, VAR_BOOL(TRUE), VAR_BOOL(FALSE)),
      shape |-> shape, guard |-> g, else_sp |-> else_sp, end_sp |-> end_sp] :
        shape \in {"if", "for", "stray"}, g \in BOOLEAN, else_sp \in {0},
        end_sp \in Spellings}
    \cup
    {[family |-> "closers",
      tpl |-> CloserTemplate("ifelse", g, else_sp, end_sp),
      ctx |-> Ctx(2, 1, VAR_BOOL(TRUE), VAR_BOOL(FALSE)),
      shape |-> "ifelse", guard |-> g, else_sp |-> else_sp, end_sp |-> end_sp] :
        g \in BOOLEAN, else_sp \in Spellings, end_sp \in Spellings}

(***************************************************************************)
(* Every template of at most MaxTokens pieces, well formed or not          *)
(***************************************************************************)

\* the largest number of pieces in such a template
MaxTokens == 3

\* the pieces: block directives over a two-element array A, the empty array
\* E, the true guard c and the false guard d, a literal, and comment marks
Tokens ==
    {For(<<"v">>, <<"A">>), For(<<"w">>, <<"E">>), ENDFOR_TEXT,
     If(<<"c">>), If(<<"d">>), ELSE_TEXT, ENDIF_TEXT,
     <<"x">>, COMMENT_OPEN, COMMENT_CLOSE}

TokenInputs ==
    {[family |-> "tokens", tpl |-> Flatten(ts),
      ctx |-> Ctx(2, 1, VAR_BOOL(TRUE), VAR_BOOL(FALSE)), toks |-> ts] :
        ts \in SeqsUpTo(Tokens, MaxTokens)}

(***************************************************************************)
(* A loop whose variable has the name of a context key                     *)
(***************************************************************************)

\* keys of Ctx: a string, an int, a bool, and the array looped over
ShadowNames == {<<"s">>, <<"n">>, <<"c">>, <<"A">>}

\* a key of Ctx other than the loop variable
OtherName(name) == IF name = <<"s">> THEN <<"n">> ELSE <<"s">>

\* {{ N }}{% for N in A %}{{ N }}{{ M }}{% endfor %}{{ N }}, and the same
\* with a loop over B under the same variable name before the {{ N }} of the
\* body
ShadowTemplate(name, nested) ==
    Flatten(<<Var(name), For(name, <<"A">>),
              IF nested
              THEN Flatten(<<For(name, <<"B">>), Var(name), ENDFOR_TEXT>>)
              ELSE <<>>,
              Var(name), Var(OtherName(name)), ENDFOR_TEXT, Var(name)>>)

ShadowInputs ==
    {[family |-> "shadow",
      tpl |-> ShadowTemplate(name, nested),
      ctx |-> Ctx(n, m, VAR_BOOL(TRUE), VAR_BOOL(FALSE)),
      name |-> name, nested |-> nested, n |-> n, m |-> m] :
        name \in ShadowNames, nested \in BOOLEAN, n \in 1..MaxCount, m \in 1..2}

(***************************************************************************)
(* The outer loop's variable referred to inside an inner loop              *)
(***************************************************************************)

\* the outer loop's variable: w, which no context holds, or the name of the
\* context's string s or of its false guard d
OuterNames == {<<"w">>, <<"s">>, <<"d">>}

\* {% for N in A %}{% for v in B %}REF{% endfor %}{% endfor %}, REF being
\* {{ N }} or {% if N %}x{% endif %}
OuterRefTemplate(name, ref) ==
    Flatten(<<For(name, <<"A">>), For(<<"v">>, <<"B">>),
              IF ref = "var" THEN Var(name)
              ELSE Flatten(<<If(name), <<"x">>, ENDIF_TEXT>>),
              ENDFOR_TEXT, ENDFOR_TEXT>>)

OuterRefInputs ==
    {[family |-> "outerref",
      tpl |-> OuterRefTemplate(name, ref),
      ctx |-> Ctx(n, m, VAR_BOOL(TRUE), VAR_BOOL(FALSE)),
      name |-> name, ref |-> ref, n |-> n, m |-> m] :
        name \in OuterNames, ref \in {"var", "if"}, n \in 1..MaxCount, m \in 1..2}

(***************************************************************************)
(* <{{ k }}> over a context whose only key k holds a value of each type    *)
(***************************************************************************)

\* values of the scalar types with the text each is to render to, the
\* extremes of each integer type among them
ScalarCases ==
    {[val |-> VAR_STRING(<<"h", "i">>),
      text |-> <<"h", "i">>],
     [val |-> VAR_STRING(<<>>),
      text |-> <<>>],
     [val |-> VAR_STRING(<<"x", " ", "y">>),
      text |-> <<"x", " ", "y">>],
     [val |-> VAR_STRING(NULL_STR),
      text |-> <<>>],
     [val |-> VAR_INT(0),
      text |-> <<"0">>],
     [val |-> VAR_INT(7),
      text |-> <<"7">>],
     [val |-> VAR_INT(-7),
      text |-> <<"-", "7">>],
     [val |-> VAR_INT(30),
      text |-> <<"3", "0">>],
     [val |-> VAR_INT(-120),
      text |-> <<"-", "1", "2", "0">>],
     [val |-> VAR_INT(2147483647),
      text |-> <<"2", "1", "4", "7", "4", "8", "3", "6", "4", "7">>],
     [val |-> VAR_INT(-2147483647 - 1),
      text |-> <<"-", "2", "1", "4", "7", "4", "8", "3", "6", "4", "8">>],
     [val |-> VAR_LONG(<<0, 0, 0, 0>>),
      text |-> <<"0">>],
     [val |-> VAR_LONG(<<0, 0, 0, 1>>),
      text |-> <<"1">>],
     [val |-> VAR_LONG(<<65535, 65535, 65535, 65535>>),
      text |-> <<"-", "1">>],
     [val |-> VAR_LONG(<<0, 1, 0, 0>>),
      text |-> <<"4", "2", "9", "4", "9", "6", "7", "2", "9", "6">>],
     [val |-> VAR_LONG(<<65535, 65535, 0, 0>>),
      text |-> <<"-", "4", "2", "9", "4", "9", "6", "7", "2", "9", "6">>],
     [val |-> VAR_LONG(<<0, 287, 29179, 1227>>),
      text |-> <<"1", "2", "3", "4", "5", "6", "7", "8", "9", "0", "1", "2", "3">>],
     [val |-> VAR_LONG(<<32767, 65535, 65535, 65535>>),
      text |-> <<"9", "2", "2", "3", "3", "7", "2", "0", "3", "6", "8", "5", "4", "7", "7", "5", "8", "0", "7">>],
     [val |-> VAR_LONG(<<32768, 0, 0, 0>>),
      text |-> <<"-", "9", "2", "2", "3", "3", "7", "2", "0", "3", "6", "8", "5", "4", "7", "7", "5", "8", "0", "8">>],
     [val |-> VAR_UINT(<<0, 0>>),
      text |-> <<"0">>],
     [val |-> VAR_UINT(<<0, 9>>),
      text |-> <<"9">>],
     [val |-> VAR_UINT(<<0, 65535>>),
      text |-> <<"6", "5", "5", "3", "5">>],
     [val |-> VAR_UINT(<<1, 0>>),
      text |-> <<"6", "5", "5", "3", "6">>],
     [val |-> VAR_UINT(<<32768, 0>>),
      text |-> <<"2", "1", "4", "7", "4", "8", "3", "6", "4", "8">>],
     [val |-> VAR_UINT(<<65535, 65535>>),
      text |-> <<"4", "2", "9", "4", "9", "6", "7", "2", "9", "5">>],
     [val |-> VAR_BOOL(TRUE),
      text |-> <<"t", "r", "u", "e">>],
     [val |-> VAR_BOOL(FALSE),
      text |-> <<"f", "a", "l", "s", "e">>]}

\* an array of n strings is to render to [array of size n]
ArrayCases ==
    {[val |-> ArrayA(n),
      text |-> <<"[", "a", "r", "r", "a", "y", " ", "o", "f", " ", "s", "i", "z", "e",
                 " ", Digit(n), "]">>] : n \in 0..MaxCount}

ValueInputs ==
    {[family |-> "values",
      tpl |-> Flatten(<<<<"<">>, Var(<<"k">>), <<">">> >>),
      ctx |-> <<TemplateVar(<<"k">>, case.val)>>,
      val |-> case.val,
      text |-> case.text] : case \in ScalarCases \cup ArrayCases}

(***************************************************************************)
(* {% if k %}T{% else %}F{% endif %} over a context whose only key is k     *)
(***************************************************************************)

\* values of every type a guard can have, with the branch each is to take
TruthCases ==
    {[val |-> VAR_BOOL(TRUE), truthy |-> TRUE],
     [val |-> VAR_BOOL(FALSE), truthy |-> FALSE],
     [val |-> VAR_INT(0), truthy |-> FALSE],
     [val |-> VAR_INT(1), truthy |-> TRUE],
     [val |-> VAR_INT(-1), truthy |-> TRUE],
     [val |-> VAR_INT(7), truthy |-> TRUE],
     [val |-> VAR_INT(2147483647), truthy |-> TRUE],
     [val |-> VAR_INT(-2147483647 - 1), truthy |-> TRUE],
     [val |-> VAR_LONG(<<0, 0, 0, 0>>), truthy |-> FALSE],
     [val |-> VAR_LONG(<<0, 0, 0, 1>>), truthy |-> TRUE],
     [val |-> VAR_LONG(<<65535, 65535, 65535, 65535>>), truthy |-> TRUE],
     [val |-> VAR_LONG(<<0, 1, 0, 0>>), truthy |-> TRUE],
     [val |-> VAR_LONG(<<32768, 0, 0, 0>>), truthy |-> TRUE],
     [val |-> VAR_LONG(<<0, 0, 1, 0>>), truthy |-> TRUE],
     [val |-> VAR_UINT(<<0, 0>>), truthy |-> FALSE],
     [val |-> VAR_UINT(<<0, 1>>), truthy |-> TRUE],
     [val |-> VAR_UINT(<<1, 0>>), truthy |-> TRUE],
     [val |-> VAR_UINT(<<32768, 0>>), truthy |-> TRUE],
     [val |-> VAR_UINT(<<65535, 65535>>), truthy |-> TRUE],
     [val |-> VAR_STRING(<<"h", "i">>), truthy |-> TRUE],
     [val |-> VAR_STRING(<<" ">>), truthy |-> TRUE],
     [val |-> VAR_STRING(<<"0">>), truthy |-> TRUE],
     [val |-> VAR_STRING(<<"f", "a", "l", "s", "e">>), truthy |-> TRUE],
     [val |-> VAR_STRING(<<>>), truthy |-> FALSE],
     [val |-> VAR_STRING(NULL_STR), truthy |-> FALSE]}
    \cup {[val |-> ArrayA(n), truthy |-> n > 0] : n \in 0..MaxCount}

TruthInputs ==
    {[family |-> "truth",
      tpl |-> Flatten(<<If(<<"k">>), <<"T">>, ELSE_TEXT, <<"F">>, ENDIF_TEXT>>),
      ctx |-> <<TemplateVar(<<"k">>, case.val)>>,
      val |-> case.val,
      truthy |-> case.truthy] : case \in TruthCases}

(***************************************************************************)
(* Tags left open and tags too long, outside and inside a skipped branch   *)
(***************************************************************************)

\* what stands before the tag: nothing, a true if, or a false if that has no
\* closer to jump to, so that what follows it is scanned as skipped
MalformedPrefixes ==
    {[src |-> <<>>, skipping |-> FALSE],
     [src |-> If(<<"c">>), skipping |-> FALSE],
     [src |-> If(<<"d">>), skipping |-> TRUE]}

\* a tag left open, and tags whose text between the delimiters is of
\* NAME_BUF_SIZE characters (too long) or one less (the longest that fits)
MalformedTags ==
    {[kind |-> "open_var", src |-> VAR_OPEN \o <<" ", "s", " ">>],
     [kind |-> "open_dir", src |-> DIR_OPEN \o <<" ", "i", "f", " ", "c", " ">>],
     [kind |-> "long_var", src |-> Var(Repeat(<<"x">>, NAME_BUF_SIZE - 2))],
     [kind |-> "long_dir", src |-> Dir(Repeat(<<"x">>, NAME_BUF_SIZE - 2))],
     [kind |-> "fit_var", src |-> Var(Repeat(<<"x">>, NAME_BUF_SIZE - 3))],
     [kind |-> "fit_dir", src |-> Dir(Repeat(<<"x">>, NAME_BUF_SIZE - 3))]}

MalformedInputs ==
    {[family |-> "malformed",
      tpl |-> Flatten(<<pre.src, <<"a", "\n">>, tag.src, <<"b">> >>),
      ctx |-> Ctx(1, 1, VAR_BOOL(TRUE), VAR_BOOL(FALSE)),
      kind |-> tag.kind,
      skipping |-> pre.skipping] : pre \in MalformedPrefixes, tag \in MalformedTags}

(***************************************************************************)
(* {% for v in A %}{% if v %}Y{% else %}N{% endif %}{% endfor %}           *)
(***************************************************************************)

\* elements of every type a loop reads, with the branch each is to take
LoopElementCases ==
    {[val |-> VAR_BOOL(TRUE), truthy |-> TRUE],
     [val |-> VAR_BOOL(FALSE), truthy |-> FALSE],
     [val |-> VAR_INT(0), truthy |-> FALSE],
     [val |-> VAR_INT(-1), truthy |-> TRUE],
     [val |-> VAR_LONG(<<0, 0, 0, 0>>), truthy |-> FALSE],
     [val |-> VAR_LONG(<<0, 1, 0, 0>>), truthy |-> TRUE],
     [val |-> VAR_UINT(<<0, 0>>), truthy |-> FALSE],
     [val |-> VAR_UINT(<<1, 0>>), truthy |-> TRUE],
     [val |-> VAR_STRING(<<>>), truthy |-> FALSE],
     [val |-> VAR_STRING(<<"0">>), truthy |-> TRUE],
     [val |-> VAR_STRING(NULL_STR), truthy |-> FALSE]}

\* the arrays of up to MaxCount elements of one type
ElementArrays ==
    UNION {SeqsUpTo({case \in LoopElementCases : case.val.type = item_type}, MaxCount) :
               item_type \in {case.val.type : case \in LoopElementCases}}

\* the item type of an array of cases; TMPL_STRING for the empty one
ItemTypeOf(cases) == IF cases = <<>> THEN "TMPL_STRING" ELSE cases[1].val.type

EachIfInputs ==
    {[family |-> "eachif",
      tpl |-> Flatten(<<For(<<"v">>, <<"A">>), If(<<"v">>), <<"Y">>, ELSE_TEXT, <<"N">>,
                        ENDIF_TEXT, ENDFOR_TEXT>>),
      ctx |-> <<TemplateVar(<<"A">>,
                            VAR_ARRAY([i \in 1..Len(cases) |-> cases[i].val.value],
                                      ItemTypeOf(cases)))>>,
      truthy |-> [i \in 1..Len(cases) |-> cases[i].truthy]] : cases \in ElementArrays}

(***************************************************************************)
(* Text after a conditional: {% if c %}T{% else %}E{% endif %}S            *)
(***************************************************************************)

\* the literal text S that follows the endif
Tails ==
    {<<"S">>, <<"\n", "S">>, <<"\n", "\n", "S", "\n">>, <<" ", "\n", "S">>, <<"\t", "S">>}

TailInputs ==
    {[family |-> "tail", tpl |-> CondTemplate(T, has_else, E) \o S,
      ctx |-> Ctx(1, 1, VAR_BOOL(c), VAR_BOOL(TRUE)),
      T |-> T, has_else |-> has_else, E |-> IF has_else THEN E ELSE <<>>,
      truthy |-> c, S |-> S,
      standalone |-> HasStandaloneDirective(CondTemplate(T, has_else, E) \o S)] :
        T \in ThenBranches, has_else \in BOOLEAN, E \in ElseBranches, c \in BOOLEAN,
        S \in Tails}

(***************************************************************************)
(* Two calls: the same template twice, and two templates of known result   *)
(***************************************************************************)

\* what a template of the closers family renders to when its closers are
\* written {% else %}, {% endif %}, {% endfor %}
CanonicalResult(shape, g) ==
    CASE shape = "if" ->
            [ret |-> "true", out |-> IF g THEN <<"a", "y">> ELSE <<"y">>,
             err |-> NoError]
      [] shape = "ifelse" ->
            [ret |-> "true", out |-> IF g THEN <<"a", "y">> ELSE <<"b", "y">>,
             err |-> NoError]
      [] shape = "for" ->
            [ret |-> "true",
             out |-> IF g THEN ElemA(1) \o ElemA(2) \o <<"y">> ELSE <<"y">>,
             err |-> NoError]
      [] shape = "stray" ->
            IF g
            THEN [ret |-> "false", out |-> <<>>,
                  err |-> set_error("TMPL_ERR_SYNTAX", MSG_ENDFOR_NO_FOR, 1)]
            ELSE [ret |-> "true", out |-> <<"y">>, err |-> NoError]

\* the templates rendered twice
TwiceBase ==
    MiscInputs \cup CommentInputs \cup {i \in TokenInputs : Len(i.toks) <= 2}

TwiceInputs ==
    {[family |-> "twice", tpl |-> i.tpl, second |-> i.tpl, ctx |-> i.ctx] :
        i \in TwiceBase}

CanonicalClosers == {i \in CloserInputs : i.else_sp = 0 /\ i.end_sp = 0}

PairInputs ==
    {[family |-> "pair", tpl |-> i.tpl, second |-> j.tpl, ctx |-> i.ctx,
      expected |-> <<CanonicalResult(i.shape, i.guard),
                     CanonicalResult(j.shape, j.guard)>>] :
        i \in CanonicalClosers, j \in CanonicalClosers}

\* what stands around the comment: plain text, a falsy if, the else part of a
\* truthy if, a loop over the empty array
CommentPairShapes ==
    {[before |-> <<"x">>, after |-> <<"y">>],
     [before |-> Flatten(<<<<"a">>, If(<<"d">>), <<"x">>>>),
      after |-> Flatten(<<<<"y">>, ENDIF_TEXT, <<"z">>>>)],
     [before |-> Flatten(<<<<"a">>, If(<<"c">>), <<"x">>, ELSE_TEXT>>),
      after |-> Flatten(<<<<"y">>, ENDIF_TEXT, <<"z">>>>)],
     [before |-> Flatten(<<<<"a">>, For(<<"v">>, <<"E">>), <<"x">>>>),
      after |-> Flatten(<<<<"y">>, ENDFOR_TEXT, <<"z">>>>)]}

\* texts that replace the text of the comment; none holds "-->"
CommentReplacements ==
    {<<"d">>, Var(NAME_UNDEFINED), SP \o ENDIF_TEXT \o SP, ELSE_TEXT, SP \o ENDFOR_TEXT \o SP}

\* the same template twice, but for the text between the comment markers
CommentPairInputs ==
    {[family |-> "commentpair",
      tpl |-> Flatten(<<sh.before, COMMENT_OPEN, <<" ", "c", " ">>, COMMENT_CLOSE, sh.after>>),
      second |-> Flatten(<<sh.before, COMMENT_OPEN, body, COMMENT_CLOSE, sh.after>>),
      ctx |-> Ctx(1, 1, VAR_BOOL(TRUE), VAR_BOOL(FALSE))] :
        sh \in CommentPairShapes, body \in CommentReplacements}

\* templates rendered once with the error of an earlier failed render still in
\* *err, and once with *err zeroed
StaleTemplates ==
    {Flatten(<<<<"x">>, Var(<<"s">>), <<"y">>>>),
     Flatten(<<<<"x">>, If(<<"c">>), <<"a">>, ENDIF_TEXT, <<"y">>>>),
     Flatten(<<<<"x">>, If(<<"d">>), <<"a">>, ELSE_TEXT, <<"b">>, ENDIF_TEXT>>),
     Flatten(<<<<"x">>, If(NAME_UNDEFINED), <<"a">>, ENDIF_TEXT>>),
     Flatten(<<<<"x">>, Var(NAME_UNDEFINED)>>),
     Flatten(<<For(<<"v">>, <<"A">>), Var(<<"v">>), ENDFOR_TEXT>>),
     Flatten(<<For(<<"v">>, <<"A">>), If(<<"v">>), <<"a">>, ENDIF_TEXT, ENDFOR_TEXT>>)}

\* what an earlier failed render has left in the caller's TemplateError
PriorErrors ==
    {set_error("TMPL_ERR_RENDER", MissingVariableMessage(NAME_UNDEFINED), 2),
     set_error("TMPL_ERR_SYNTAX", MSG_UNCLOSED_IF, 1)}

StaleInputs ==
    {[family |-> "stale", tpl |-> t, second |-> t,
      ctx |-> Ctx(2, 1, VAR_BOOL(TRUE), VAR_BOOL(FALSE)),
      prior_err |-> e] : t \in StaleTemplates, e \in PriorErrors}

(***************************************************************************)
(* The specification                                                       *)
(***************************************************************************)

Inputs ==
    LoopInputs \cup LiteralInputs \cup CondInputs \cup SubstInputs \cup MissingInputs
    \cup NestedInputs \cup NestedCondInputs \cup EmptyLoopInputs \cup LinesInputs
    \cup MiscInputs \cup TokenInputs \cup CommentInputs \cup ExpressionInputs
    \cup CondMissingInputs \cup ForShapeInputs
    \cup ForArrayInputs \cup CloserInputs \cup ShadowInputs
    \cup OuterRefInputs \cup ValueInputs \cup TruthInputs
    \cup MalformedInputs \cup EachIfInputs \cup TailInputs

\* the state when the scan starts: the caller has called buffer_init on out
\* and zeroed *err (or, for an input that says so, left an earlier error in
\* it); render_template has initialised both stacks
InitWith(given, capacities) ==
    /\ input \in given
    /\ tpl = input.tpl
    /\ ctx = input.ctx
    /\ p = 1
    /\ \E initial_capacity \in capacities : out = buffer_init(initial_capacity)
    /\ loop_stack = stack_init(INITIAL_STACK_CAPACITY)
    /\ conditional_stack = stack_init(INITIAL_STACK_CAPACITY)
    /\ in_comment = FALSE
    /\ last_comment = 0
    /\ err = IF "prior_err" \in DOMAIN input THEN input.prior_err ELSE NoError
    /\ ret = "running"
    /\ other = FreshCall(IF "second" \in DOMAIN input THEN input.second ELSE input.tpl)
    /\ sched = [running |-> 1, interleaved |-> FALSE]

\* the callers of this repository: buffer_init(&out, 0)
InitOver(given) == InitWith(given, {0})

Init == InitOver(Inputs)

Next ==
    \/ CommentOpen
    \/ CommentSkip
    \/ CommentCloseUnmatched
    \/ VariableSubstitution
    \/ DirectiveMalformed
    \/ DirectiveFor
    \/ DirectiveEndfor
    \/ DirectiveIf
    \/ DirectiveElse
    \/ DirectiveEndif
    \/ DirectiveUnknown
    \/ LiteralText
    \/ EndOfInput

Spec == Init /\ [][Next]_vars

\* render_template is one sequential loop: as long as it has not returned the
\* next step is taken. This is weak fairness of Next, WF_vars(Next), with
\* ENABLED <<Next>>_vars written out as ret = "running" (every state in which
\* render has not returned has a step, and none after it has).
FairSpec == Spec /\ ([]<>(ret # "running") \/ []<><<Next>>_vars)

\* two calls over one context, each with its own buffer and error struct,
\* their steps interleaved in any order
TwoNext ==
    \/ Next
    \/ Switch

TwoSpec ==
    InitOver(TwiceInputs \cup PairInputs \cup CommentPairInputs \cup StaleInputs)
        /\ [][TwoNext]_vars

\* buffer_init is public: 0 asks for the default, any other capacity is taken
\* as it is
InitialCapacities == {0, 1, 3}

\* the renders that are run with buffers of every initial capacity: all but
\* the free token sequences
BufferInputs == {given \in Inputs : given.family # "tokens"}

BufferSpec == InitWith(BufferInputs, InitialCapacities) /\ [][Next]_vars

(***************************************************************************)
(* Properties                                                              *)
(***************************************************************************)

\* render_template has returned
Done == ret # "running"

\* s is an initial part of t
IsPrefix(s, t) == Len(s) <= Len(t) /\ SubSeq(t, 1, Len(s)) = s

\* C1: For {% for v in A %}BODY{% endfor %} over an array A of n >= 1
\* elements, with BODY made of literal text and substitutions that resolve
\* (no block directives), render succeeds, the output is BODY rendered once
\* per element with v bound to elements 0..n-1 in array order (the output
\* grows only along that text), and the loop stack is empty when the scan ends.
C1_LoopRendersBodyPerElement ==
    input.family = "loop" =>
        /\ IsPrefix(out.data, ExpectedLoop(input.body, 1, input.n))
        /\ AtEnd => loop_stack.frames = <<>>
        /\ Done => ret = "true" /\ out.data = ExpectedLoop(input.body, 1, input.n)

\* a loop over at least two elements has rendered successfully
C1_Witness ==
    /\ input.family = "loop"
    /\ input.n >= 2
    /\ ret = "true"
    /\ Len(out.data) >= 2 * input.n

\* C4: a template of literal text only (no "{{", no "{%", no comment marker)
\* renders successfully into the empty buffer, and the output is the template,
\* character for character.
C4_LiteralTemplateRendersItself ==
    input.family = "literal" =>
        /\ IsPrefix(out.data, tpl)
        /\ Done => ret = "true" /\ out.data = tpl

\* a literal template holding a lone brace has been rendered
C4_Witness ==
    /\ input.family = "literal"
    /\ ret = "true"
    /\ Len(tpl) >= 2
    /\ \E i \in 1..Len(tpl) : tpl[i] = "{"
    /\ out.data = tpl

\* the text a conditional input is to produce when every character of the
\* chosen branch is rendered
CondFullText ==
    IF input.truthy THEN Exp(input.T, <<>>) ELSE Exp(input.E, <<>>)

\* C2 as stated: for {% if c %}T{% else %}E{% endif %} (else part optional)
\* with c in the context and no conditional directive in T or E, render
\* succeeds and emits the rendering of T and nothing of E when c is truthy,
\* the rendering of E and nothing of T when c is falsy, and the conditional
\* stack is empty when the scan ends.
C2_Original ==
    input.family = "cond" /\ ~input.standalone =>
        /\ AtEnd => conditional_stack.frames = <<>>
        /\ Done => ret = "true" /\ out.data = CondFullText

\* C2 (amended): as above when no directive stands alone on its line, except
\* that in the falsy case the newline characters E begins with are consumed
\* by the jump past the else and do not reach the output: the output is the
\* rendering of E without its leading newlines.
C2_BranchSelected ==
    input.family = "cond" /\ ~input.standalone =>
        /\ AtEnd => conditional_stack.frames = <<>>
        /\ Done =>
              /\ ret = "true"
              /\ out.data = IF input.truthy THEN Exp(input.T, <<>>)
                            ELSE StripLeadingNewlines(Exp(input.E, <<>>))

\* a falsy guard has selected an else part that begins with a newline
C2_Witness ==
    /\ input.family = "cond"
    /\ ~input.standalone
    /\ ~input.truthy
    /\ input.has_else
    /\ input.E # <<>>
    /\ Head(Src(input.E)) = "\n"
    /\ ret = "true"
    /\ out.data # <<>>

\* the text a substitution input is to produce: the literals around the
\* marker unchanged, to_string of the value in between
SubstText == Flatten(<<input.l1, input.text, input.l2>>)

C5_MissingVariableMessage ==
    input.family = "missing" =>
        (Done => /\ ret = "false"
                 /\ err.type = "TMPL_ERR_RENDER"
                 /\ err.message =
                        Flatten(<<MISSING_FMT_HEAD, input.name, MISSING_FMT_TAIL>>))

\* C6: for {% for a in A %}{{ a }}{% for b in B %}{{ b }}{% endfor %}{% endfor %}
\* the output is, per element of A in order, that element followed by every
\* element of B in order; the inner frame is pushed and popped once per outer
\* iteration (only the outer frame is on the stack each time the inner for is
\* reached and each time the outer endfor is reached, and the output then
\* holds exactly the iterations completed so far); both stacks are empty
\* when the scan ends.
C6_NestedLoops ==
    input.family = "nested" =>
        /\ Len(loop_stack.frames) <= 2
        /\ ret = "running" /\ p = NestedInnerForPos =>
              /\ Len(loop_stack.frames) = 1
              /\ out.data = ExpectedNested(1, loop_stack.frames[1].index, input.n)
                              \o ElemA(loop_stack.frames[1].index + 1)
        /\ ret = "running" /\ p = NestedOuterEndforPos =>
              /\ Len(loop_stack.frames) = 1
              /\ out.data = ExpectedNested(1, loop_stack.frames[1].index + 1, input.n)
        /\ AtEnd => loop_stack.frames = <<>> /\ conditional_stack.frames = <<>>
        /\ Done => ret = "true" /\ out.data = ExpectedNested(1, input.m, input.n)

\* two outer iterations of three inner iterations each have been rendered
C6_Witness ==
    /\ input.family = "nested"
    /\ input.m = 2
    /\ input.n = 3
    /\ ret = "true"
    /\ Len(out.data) = 8

\* the conditional stack holds exactly the frames of the ifs whose block the
\* scan position lies in, outermost first: each frame was pushed by its if
\* and is popped at the endif that textually closes that if
FramesMatchOpenIfs ==
    ret = "running" =>
        /\ Len(conditional_stack.frames) = Cardinality(OpenIfs(tpl, p))
        /\ {conditional_stack.frames[k].if_start :
                k \in 1..Len(conditional_stack.frames)}
             = {IfBodyStart(tpl, i) : i \in OpenIfs(tpl, p)}
        /\ \A j, k \in 1..Len(conditional_stack.frames) :
              j < k => conditional_stack.frames[j].if_start
                           < conditional_stack.frames[k].if_start

\* C7: for properly nested if/else/endif blocks, under every assignment of
\* the guards, the frames are popped at their textually matching endif and no
\* unmatched or unclosed error is raised; with the outer guard true and the
\* inner false the output is the outer text and the inner else.
C7_NestedConditionals ==
    input.family = "nestedcond" =>
        /\ FramesMatchOpenIfs
        /\ Done => ret = "true" /\ out.data = input.expected

\* the scan of an empty-array loop never rests inside the loop, no frame
\* stays on the loop stack, and the output is the text around the loop
EmptyLoopSkipped ==
    /\ loop_stack.frames = <<>>
    /\ ret = "running" => p <= input.for_pos \/ p >= input.after_pos
    /\ Done => ret = "true" /\ out.data = input.pre \o input.post

\* C8: a for over an array of count 0 emits and evaluates nothing of its
\* body, its frame is popped at once, and the scan continues after that
\* loop's matching endfor.
C8_EmptyArraySkipsBody == input.family = "emptyloop" => EmptyLoopSkipped

\* C9: a directive alone on its line (only whitespace around it) contributes
\* no character to the output, neither the leading whitespace nor the
\* trailing newline of its line, for every directive kind (for, endfor, if,
\* else, endif), and the content lines between the directives are preserved.
C9_StandaloneLinesVanish ==
    input.family = "lines" =>
        (Done => ret = "true" /\ out.data = input.expected)

\* C10: whenever the dispatch of a standalone directive truncates the output
\* buffer, every character it removes is whitespace emitted for the
\* directive's own line; no non-whitespace output is ever discarded.
C10_TruncationRemovesOnlyWhitespace ==
    [][Len(out'.data) < Len(out.data) =>
          \A i \in (Len(out'.data) + 1)..Len(out.data) : isspace(out.data[i])]_vars

\* the characters of a text
Chars(t) == {t[i] : i \in 1..Len(t)}

\* C11: no literal text and no variable substitution located inside the
\* not-taken branch of a conditional is ever emitted, including text inside a
\* nested if (whatever the nested guard) within that not-taken branch: every
\* character in the output belongs to a text of a taken branch.
C11_UntakenBranchSilent ==
    input.family = "nestedcond" => Chars(out.data) \subseteq Chars(input.expected)

\* the scan position moves backwards only at an endfor that increments the
\* index of the innermost loop to a value below the array's count, and then
\* to the start of that loop's body
BackwardOnlyAtEndfor ==
    [][p' < p =>
          /\ DirectiveReady /\ IsEndfor /\ ~should_skip
          /\ loop_stack_has_top(loop_stack)
          /\ Len(loop_stack'.frames) = Len(loop_stack.frames)
          /\ loop_stack_top(loop_stack').index = loop_stack_top(loop_stack).index + 1
          /\ loop_stack_top(loop_stack').index
                 < loop_stack_top(loop_stack).array.value.array.count
          /\ p' = loop_stack_top(loop_stack).loop_start]_vars

\* no search and no step takes the scan position past the terminating NUL
ScanStaysInTemplate == p \in 1..(Len(tpl) + 1)

\* C12: for every finite template and every context with finite arrays
\* render terminates (returns success or an error): the scan position moves
\* backwards only at an endfor that increments a loop index below the array's
\* count, and every forward search stops at the end of the template.
C12_RenderTerminates ==
    /\ BackwardOnlyAtEndfor
    /\ []ScanStaysInTemplate
    /\ <>Done

\* a loop over two elements has gone round and render has returned
C12_Witness ==
    /\ input.family = "tokens"
    /\ input.toks = <<For(<<"v">>, <<"A">>), <<"x">>, ENDFOR_TEXT>>
    /\ ret = "true"
    /\ out.data = <<"x", "x">>

\* C13: whenever render returns success, the loop stack and the conditional
\* stack are both empty and the scanner is not inside an HTML comment: the
\* step that returns true starts from such a state, and the comment flag is
\* still clear afterwards.
C13_SuccessMeansAllClosed ==
    [][ret' = "true" =>
          /\ loop_stack.frames = <<>>
          /\ conditional_stack.frames = <<>>
          /\ ~in_comment
          /\ ~in_comment']_vars

\* a conditional has been opened and closed and render has returned success
C13_Witness ==
    /\ input.family = "tokens"
    /\ input.toks = <<If(<<"c">>), <<"x">>, ENDIF_TEXT>>
    /\ ret = "true"
    /\ ~in_comment
    /\ out.data = <<"x">>

\* the pieces of a token template
TokenSet == {input.toks[i] : i \in 1..Len(input.toks)}

\* a template of for directives and literals only: every for is executed and
\* none has an endfor
UnclosedForInput ==
    /\ input.family = "tokens"
    /\ TokenSet \subseteq {For(<<"v">>, <<"A">>), For(<<"w">>, <<"E">>), <<"x">>}
    /\ TokenSet \cap {For(<<"v">>, <<"A">>), For(<<"w">>, <<"E">>)} # {}

\* C14: a template in which an executed for has no matching endfor before
\* the end of input never renders successfully: render fails with the Syntax
\* error "Unclosed 'for' loop at end of template", whatever the size of the
\* iterated array.
C14_UnclosedForFails ==
    UnclosedForInput =>
        (Done => /\ ret = "false"
                 /\ err.type = "TMPL_ERR_SYNTAX"
                 /\ err.message = MSG_UNCLOSED_FOR)

\* how many of the first k pieces of the token template lie in S
CountIn(S, k) == Cardinality({i \in 1..k : input.toks[i] \in S})

IfTokens == {If(<<"c">>), If(<<"d">>)}

\* a template of if and endif directives and literals, no endif before its
\* if, with more ifs than endifs
UnclosedIfInput ==
    /\ input.family = "tokens"
    /\ TokenSet \subseteq IfTokens \cup {ENDIF_TEXT, <<"x">>}
    /\ \A k \in 1..Len(input.toks) :
          CountIn({ENDIF_TEXT}, k) <= CountIn(IfTokens, k)
    /\ CountIn(IfTokens, Len(input.toks)) > CountIn({ENDIF_TEXT}, Len(input.toks))

\* C15: a template with more if directives than endif directives (some if
\* is left unclosed at the end of input) never renders successfully: render
\* fails with the Syntax error "Unclosed 'if' statement at end of template",
\* for every value of the guards.
C15_UnclosedIfFails ==
    UnclosedIfInput =>
        (Done => /\ ret = "false"
                 /\ err.type = "TMPL_ERR_SYNTAX"
                 /\ err.message = MSG_UNCLOSED_IF)

\* the 1-based number of the line the position pos of t lies on
LineOf(t, pos) == 1 + Cardinality({i \in 1..(pos - 1) : t[i] = "\n"})

\* the comment opened last has no closing mark after it
CommentLeftOpen ==
    /\ in_comment
    /\ strstr(tpl, last_comment + Len(COMMENT_OPEN), COMMENT_CLOSE) = 0

\* C16: if a comment opened during the scan has no closing mark before the
\* end of input, render fails with the Syntax error "Unterminated HTML comment
\* '<!--'" whose line is the line on which that comment starts; the check
\* comes before those for an unclosed for and an unclosed if.
C16_UnterminatedComment ==
    CommentLeftOpen /\ Done =>
        /\ ret = "false"
        /\ err.type = "TMPL_ERR_SYNTAX"
        /\ err.message = MSG_UNTERMINATED_COMMENT
        /\ err.line = LineOf(tpl, last_comment)

\* a comment opened on line 3 inside an open loop and an open conditional
\* has run to the end of input
C16_Witness ==
    /\ CommentLeftOpen
    /\ ret = "false"
    /\ loop_stack.frames # <<>>
    /\ conditional_stack.frames # <<>>
    /\ err.message = MSG_UNTERMINATED_COMMENT
    /\ err.line = 3

\* where the comment opened last closes (0: nowhere)
NextClose == strstr(tpl, last_comment + Len(COMMENT_OPEN), COMMENT_CLOSE)

\* a step taken inside a comment emits nothing, touches neither stack and
\* raises no error before the end of input; the comment ends only at its
\* closing mark, with the scan right after it
CommentStepSilent ==
    in_comment /\ ret = "running" =>
        /\ out' = out
        /\ loop_stack' = loop_stack
        /\ conditional_stack' = conditional_stack
        /\ ~AtEnd => ret' = "running" /\ err' = err /\ p' > p
        /\ ~in_comment' => p = NextClose /\ p' = NextClose + Len(COMMENT_CLOSE)
        /\ in_comment' /\ NextClose # 0 => p' <= NextClose

\* C17: once a comment opening is scanned, every character up to and
\* including the next closing mark is consumed without emitting anything and
\* without executing any substitution or directive it contains, whatever the
\* conditional-skip state; the text before and after it is rendered normally.
C17_CommentConsumed ==
    /\ [][CommentStepSilent]_vars
    /\ [](input.family = "comment" /\ Done =>
              ret = "true" /\ out.data = input.expected)

\* a comment holding an undefined variable has been passed over between two
\* texts that were both rendered
C17_Witness ==
    /\ input.family = "comment"
    /\ MatchAt(tpl, input.open_pos + Len(COMMENT_OPEN), Var(NAME_UNDEFINED))
    /\ ret = "true"
    /\ out.data = <<"x", "\n", "h", "i">>

\* C18: an if whose condition is a boolean expression over context variables
\* with and, or, not and parentheses is evaluated as that expression:
\* {% if a and (not b or c) %}{{ message }}{% endif %} with a = true,
\* b = false, c = true renders successfully and outputs the message.
C18_BooleanExpression ==
    input.family = "expression" =>
        (Done => /\ ret = "true"
                 /\ out.data = IF input.a /\ (~input.b \/ input.c)
                               THEN TEXT_SUCCESS ELSE <<>>)

\* C19: when the trimmed condition of an if is neither the innermost loop
\* variable nor a context key, render fails with an error of kind Render
\* whose message is "Missing template variable for '<name>'", the kind a
\* missing variable in a substitution has.
C19_MissingConditionIsRenderError ==
    input.family = "condmissing" =>
        (Done => /\ ret = "false"
                 /\ err.type = "TMPL_ERR_RENDER"
                 /\ err.message =
                        Flatten(<<MISSING_FMT_HEAD, input.name, MISSING_FMT_TAIL>>))

\* C20: every error render returns carries the 1-based number of the line on
\* which the offending construct begins, the missing-variable error for the
\* condition of an if included: an error raised at a marker, a directive or a
\* stray comment close carries the line of its first character, and an
\* unterminated comment the line of its opening mark.
C20_ErrorLineIsConstructLine ==
    [][ret' = "false" =>
          IF ~AtEnd THEN err'.line = LineOf(tpl, p)
          ELSE in_comment => err'.line = LineOf(tpl, last_comment)]_vars

\* the text A renders to, element after element
RECURSIVE AllOfA(_, _)
AllOfA(i, n) == IF i > n THEN <<>> ELSE ElemA(i) \o AllOfA(i + 1, n)

\* C21: a for directive executed outside a skipped branch is accepted only if
\* its content is exactly the four space-separated tokens for <var> in
\* <array>; fewer than four tokens, more than four tokens, or a third token
\* other than in all make render fail with the Syntax error "Invalid 'for'
\* loop".
C21_ForNeedsExactlyFourTokens ==
    input.family = "forshape" =>
        (Done =>
            IF input.tokens = 4 /\ input.third = KW_IN
            THEN ret = "true" /\ out.data = <<"x">> \o AllOfA(1, input.n)
            ELSE /\ ret = "false"
                 /\ err.type = "TMPL_ERR_SYNTAX"
                 /\ err.message = MSG_INVALID_FOR)

\* a for directive of exactly four tokens, the third being in, is about to
\* be executed and the context holds no array under the name it gives
ForNamesNoArray ==
    /\ DirectiveReady
    /\ IsFor
    /\ ~should_skip
    /\ LET tokens == strtok_all(cmd)
       IN  /\ Len(tokens) = 4
           /\ tokens[3] = KW_IN
           /\ LET arr == context_get(ctx, tokens[4])
              IN  ~arr.found \/ arr.val.type # "TMPL_ARRAY"

\* C22: when a well-formed for directive names an array that is absent from
\* the context or whose value is not of the Array type, render fails with an
\* error of kind Render and no loop frame is pushed: the step that executes
\* such a directive returns false with the Render error and leaves the loop
\* stack as it was, and a template whose for names such a variable ends that
\* way, at top level with an empty loop stack and inside a loop with the
\* outer frame alone.
C22_ForOverNoArrayIsRenderError ==
    /\ [][ForNamesNoArray =>
            /\ ret' = "false"
            /\ err'.type = "TMPL_ERR_RENDER"
            /\ err'.message = MSG_NOT_ARRAY
            /\ loop_stack' = loop_stack]_vars
    /\ [](input.family = "forarray" /\ input.name \notin ArrayNames /\ Done =>
            /\ ret = "false"
            /\ err.type = "TMPL_ERR_RENDER"
            /\ err.message = MSG_NOT_ARRAY
            /\ err.line = 1
            /\ out.data = <<"x">> \o (IF input.nested THEN ElemA(1) ELSE <<>>)
            /\ Len(loop_stack.frames) = (IF input.nested THEN 1 ELSE 0))

\* a for over a string of the context, met inside a loop over A, has failed
\* and the outer frame is the only one
C22_Witness ==
    /\ input.family = "forarray"
    /\ input.nested
    /\ input.name = <<"s">>
    /\ ret = "false"
    /\ err.type = "TMPL_ERR_RENDER"
    /\ Len(loop_stack.frames) = 1

\* C23: whenever the scanner dispatches an endfor directive while the loop
\* stack is empty, render fails with the Syntax error "Found 'endfor' with no
\* matching 'for'"; an endfor is never accepted without an active loop frame.
C23_EndforNeedsLoopFrame ==
    [][DirectiveReady /\ IsEndfor /\ ~loop_stack_has_top(loop_stack) =>
            /\ ret' = "false"
            /\ err'.type = "TMPL_ERR_SYNTAX"
            /\ err'.message = MSG_ENDFOR_NO_FOR]_vars

\* C24: whenever the scanner dispatches an else or an endif directive while
\* the conditional stack is empty, render fails with the Syntax error "Found
\* 'else' with no matching 'if'" / "Found 'endif' with no matching 'if'" at
\* the directive's line; an endif dispatched with a frame present pops
\* exactly one frame, the top one, whether the branch is being skipped or not.
C24_ElseEndifNeedFrame ==
    [][/\ (DirectiveReady /\ IsElse /\ conditional_stack.frames = <<>> =>
            /\ ret' = "false"
            /\ err'.type = "TMPL_ERR_SYNTAX"
            /\ err'.message = MSG_ELSE_NO_IF
            /\ err'.line = LineOf(tpl, tag_block_start))
       /\ (DirectiveReady /\ IsEndif /\ conditional_stack.frames = <<>> =>
            /\ ret' = "false"
            /\ err'.type = "TMPL_ERR_SYNTAX"
            /\ err'.message = MSG_ENDIF_NO_IF
            /\ err'.line = LineOf(tpl, tag_block_start))
       /\ (DirectiveReady /\ IsEndif /\ conditional_stack.frames # <<>> =>
            /\ ret' = "running"
            /\ Len(conditional_stack'.frames) = Len(conditional_stack.frames) - 1
            /\ \A i \in 1..Len(conditional_stack'.frames) :
                    conditional_stack'.frames[i] = conditional_stack.frames[i])]_vars

\* {% if c %}{% endif %}{% else %}: the endif has popped the only frame and
\* the else that follows has found the stack empty
C24_Witness ==
    /\ input.family = "tokens"
    /\ input.toks = <<If(<<"c">>), ENDIF_TEXT, ELSE_TEXT>>
    /\ ret = "false"
    /\ err.type = "TMPL_ERR_SYNTAX"
    /\ err.message = MSG_ELSE_NO_IF
    /\ conditional_stack.frames = <<>>

\* the finished render has the given result
ResultIs(r) == ret = r.ret /\ out.data = r.out /\ err = r.err

\* with the closers spelled {% else %}, {% endif %}, {% endfor %} every
\* template of the closers family renders to CanonicalResult
CanonicalSpellingRenders ==
    input.family = "closers" /\ input.else_sp = 0 /\ input.end_sp = 0 /\ Done =>
        ResultIs(CanonicalResult(input.shape, input.guard))

\* C25: directive recognition does not depend on the whitespace between the
\* delimiters and the tokens: a template that writes its closers as
\* {%endif%}, {%else%}, {%endfor%} (or with extra spaces) renders to the same
\* result, success or error and same output, as the same template written
\* with {% endif %}, {% else %}, {% endfor %}.
C25_CloserSpellingIrrelevant ==
    input.family = "closers" /\ Done =>
        ResultIs(CanonicalResult(input.shape, input.guard))

\* what a call hands back: the return value, *err and the bytes in *out
ResultOf(call) == [ret |-> call.ret, err |-> call.err, out |-> call.out.data]

BothDone == ret # "running" /\ other.ret # "running"

FirstCall == IF sched.running = 1 THEN ThisCall ELSE other

SecondCall == IF sched.running = 2 THEN ThisCall ELSE other

\* C27: render never writes to the template text or to the context: no step
\* of a call changes either, and after any render both are as the caller
\* built them; so two renders that share one context and have their own
\* buffers and error structs, their steps interleaved in any order, each
\* produce the result they produce alone.
C27_InputsReadOnly ==
    /\ [][/\ ctx' = ctx
          /\ sched'.running = sched.running => tpl' = tpl /\ other' = other]_vars
    /\ [](/\ ctx = input.ctx
          /\ FirstCall.tpl = input.tpl
          /\ SecondCall.tpl = input.second)
    /\ [](BothDone =>
            /\ input.family = "twice" => ResultOf(FirstCall) = ResultOf(SecondCall)
            /\ input.family = "pair" =>
                /\ ResultOf(FirstCall) = input.expected[1]
                /\ ResultOf(SecondCall) = input.expected[2])

\* two different templates over one context, the steps of the two calls
\* interleaved: the loop over A has rendered ab and y, and the if-else over
\* the false guard d has rendered b and y
C27_Witness ==
    /\ input.family = "pair"
    /\ input.tpl = CloserTemplate("for", TRUE, 0, 0)
    /\ input.second = CloserTemplate("ifelse", FALSE, 0, 0)
    /\ sched.interleaved
    /\ BothDone
    /\ FirstCall.out.data = <<"a", "b", "y">>
    /\ SecondCall.out.data = <<"b", "y">>
    /\ ctx = input.ctx

\* the text the context's value under a key renders to
ContextText(name) == value_text(context_get(ctx, name).val)

RECURSIVE AllOfB(_, _)
\* the text B renders to, element after element
AllOfB(j, m) == IF j > m THEN <<>> ELSE ElemB(j) \o AllOfB(j + 1, m)

RECURSIVE ShadowBody(_)
\* what the loop of a shadow template renders, from element i of A on: the
\* elements of B if there is an inner loop, element i of A for the loop
\* variable, the context's value for the other name
ShadowBody(i) ==
    IF i > input.n THEN <<>>
    ELSE (IF input.nested THEN AllOfB(1, input.m) ELSE <<>>)
         \o ElemA(i) \o ContextText(OtherName(input.name)) \o ShadowBody(i + 1)

\* C28: a {{ name }} marker is resolved against the innermost active loop's
\* variable first: when name equals that variable the element at the loop's
\* current index is rendered even if the context also holds a key with that
\* name, and the context is consulted only when name differs (or no loop is
\* active).
C28_LoopVariableShadowsContext ==
    input.family = "shadow" /\ Done =>
        /\ ret = "true"
        /\ out.data = ContextText(input.name) \o ShadowBody(1) \o ContextText(input.name)

\* {{ s }}{% for s in A %}{{ s }}{{ n }}{% endfor %}{{ s }} over A = a, b and
\* the context string s = hi has rendered hi a30 b30 hi
C28_Witness ==
    /\ input.family = "shadow"
    /\ input.name = <<"s">>
    /\ ~input.nested
    /\ input.n = 2
    /\ ret = "true"
    /\ out.data = <<"h", "i", "a", "3", "0", "b", "3", "0", "h", "i">>

\* what one reference to the outer variable's name renders when the name is
\* taken from the context: the value's text for {{ N }}, x for a true
\* {% if N %}x{% endif %}
OuterRefText ==
    LET val == context_get(ctx, input.name).val
    IN  IF input.ref = "var" THEN value_text(val)
        ELSE IF is_truthy(val) THEN <<"x">> ELSE <<>>

\* C29: only the innermost loop frame is consulted for a loop variable:
\* inside an inner loop with a different variable name, a reference (in
\* {{ }} or in an if condition) to the outer loop's variable is looked up in
\* the context; it renders the context's value under that name, never the
\* outer loop's element, and fails with a missing-variable error when the
\* context has no such key.
C29_OnlyInnermostFrame ==
    input.family = "outerref" /\ Done =>
        IF context_get(ctx, input.name).found
        THEN /\ ret = "true"
             /\ out.data = Flatten([k \in 1..(input.n * input.m) |-> OuterRefText])
        ELSE /\ ret = "false"
             /\ err.message = MissingVariableMessage(input.name)
             /\ input.ref = "var" => err.type = "TMPL_ERR_RENDER"
             /\ err.line = 1
             /\ out.data = <<>>
             /\ Len(loop_stack.frames) = 2

\* {% for w in A %}{% for v in B %}{% if w %}x{% endif %}{% endfor %}{% endfor %}
\* has failed inside the inner loop: the context has no w
C29_Witness ==
    /\ input.family = "outerref"
    /\ input.name = <<"w">>
    /\ input.ref = "if"
    /\ ret = "false"
    /\ err.message = MissingVariableMessage(<<"w">>)
    /\ Len(loop_stack.frames) = 2
    /\ loop_stack.frames[1].item_name = <<"w">>

\* C30: substituting a context value renders a String as itself (a null
\* string as nothing), an Int32, Int64 or UInt32 as its decimal digits (the
\* UInt32 4294967295 as 4294967295, not as a negative number), a Bool as true
\* or false, and an Array as [array of size N].
C30_ValuesRenderByType ==
    input.family = "values" /\ Done =>
        /\ ret = "true"
        /\ out.data = <<"<">> \o input.text \o <<">">>

\* the unsigned int with all 32 bits set has been rendered
C30_Witness ==
    /\ input.family = "values"
    /\ input.val.type = "TMPL_UINT"
    /\ input.val.value.uint = <<LIMB - 1, LIMB - 1>>
    /\ ret = "true"
    /\ out.data = <<"<", "4", "2", "9", "4", "9", "6", "7", "2", "9", "5", ">">>

C32_UnmatchedCommentClose ==
    [][ret = "running" /\ ~AtEnd /\ ~in_comment /\ MatchAt(tpl, p, COMMENT_CLOSE) =>
            /\ ret' = "false"
            /\ err'.type = "TMPL_ERR_PARSE"
            /\ err'.message = MSG_UNMATCHED_COMMENT
            /\ err'.line = LineOf(tpl, p)
            /\ out' = out]_vars

\* {% if d %}x--> with d false: the if finds no closer to jump to, x is
\* skipped, and the mark met in the skipped branch has failed the render
C32_Witness ==
    /\ input.family = "tokens"
    /\ input.toks = <<If(<<"d">>), <<"x">>, COMMENT_CLOSE>>
    /\ ret = "false"
    /\ err.type = "TMPL_ERR_PARSE"
    /\ err.message = MSG_UNMATCHED_COMMENT
    /\ should_skip
    /\ out.data = <<>>

\* the Parse message a malformed tag of the given kind is to fail with
MalformedMessage(kind) ==
    CASE kind = "open_var" -> MSG_UNTERMINATED_VAR
      [] kind = "open_dir" -> MSG_UNTERMINATED_DIR
      [] kind = "long_var" -> MSG_NAME_TOO_LONG
      [] kind = "long_dir" -> MSG_DIRECTIVE_TOO_LONG

\* C33: a {{ with no following }} and a {% with no following %} reached by
\* the scan each make render fail with a Parse error, also when the scanner
\* is inside a skipped conditional branch; a name or directive of 128 or
\* more characters reached outside a skipped branch is a Parse error as
\* well (and one of 127 characters is not). The error is at the tag's line.
C33_MalformedTagsAreParseErrors ==
    /\ [][/\ Scanning /\ AtVarOpen /\ strstr(tpl, p + 2, VAR_CLOSE) = 0 =>
                /\ ret' = "false"
                /\ err'.type = "TMPL_ERR_PARSE"
                /\ err'.message = MSG_UNTERMINATED_VAR
          /\ Scanning /\ ~AtVarOpen /\ AtDirOpen /\ strstr(tpl, p + 2, DIR_CLOSE) = 0 =>
                /\ ret' = "false"
                /\ err'.type = "TMPL_ERR_PARSE"
                /\ err'.message = MSG_UNTERMINATED_DIR]_vars
    /\ [](input.family = "malformed" /\ Done =>
            IF \/ input.kind \in {"open_var", "open_dir"}
               \/ input.kind \in {"long_var", "long_dir"} /\ ~input.skipping
            THEN /\ ret = "false"
                 /\ err.type = "TMPL_ERR_PARSE"
                 /\ err.message = MalformedMessage(input.kind)
                 /\ err.line = 2
            ELSE input.kind \in {"fit_var", "fit_dir"} => err.type # "TMPL_ERR_PARSE")

\* {% if d %}a, a newline and an unterminated {{ s: the render has failed at
\* the marker on line 2 while skipping the branch of the false if
C33_Witness ==
    /\ input.family = "malformed"
    /\ input.kind = "open_var"
    /\ input.skipping
    /\ should_skip
    /\ ret = "false"
    /\ err.type = "TMPL_ERR_PARSE"
    /\ err.message = MSG_UNTERMINATED_VAR
    /\ err.line = 2

(***************************************************************************)
(* C34: the output buffer                                                  *)
(***************************************************************************)

RECURSIVE IsDoubling(_, _)
\* c is old * 2^k for some k >= 1
IsDoubling(old, c) ==
    /\ c > old
    /\ c % 2 = 0
    /\ (c \div 2 = old \/ IsDoubling(old, c \div 2))

\* the text a step at {{ name }} is to append, when the name resolves
SubstitutedText ==
    LET var_start == p + 2
        var_end == strstr(tpl, var_start, VAR_CLOSE)
        name == Trim(SubSeq(tpl, var_start, var_end - 1))
    IN  IF is_loop_variable(name)
        THEN value_text(LoopItem(loop_stack_top(loop_stack)))
        ELSE value_text(context_get(ctx, name).val)

\* C34: in every state size + 1 <= capacity (the terminator is at data[size]);
\* a step either leaves the content, or appends to it (the old content stays as
\* a prefix: a literal step adds its one character, a substitution adds the
\* text of the value, the empty text changes nothing and the scan goes on), or
\* cuts it back to the start of its last line (a standalone tag) with the
\* capacity unchanged; the capacity changes only when the new content and its
\* terminator do not fit, and then to the smallest doubling of the old capacity
\* that holds them.
C34_BufferInvariant ==
    /\ [](Len(out.data) + 1 <= out.capacity)
    /\ [][LET need == Len(out'.data) + 1
              appended == IsPrefix(out.data, out'.data)
              truncated == /\ Scanning
                           /\ ~AtVarOpen
                           /\ AtDirOpen
                           /\ out'.data = SubSeq(out.data, 1, buffer_line_start)
          IN  /\ appended \/ truncated
              /\ truncated => out'.capacity = out.capacity
              /\ IF need <= out.capacity
                 THEN out'.capacity = out.capacity
                 ELSE /\ IsDoubling(out.capacity, out'.capacity)
                      /\ out'.capacity >= need
                      /\ (out'.capacity = 2 * out.capacity
                          \/ out'.capacity \div 2 < need)
              /\ (Scanning /\ ~AtVarOpen /\ ~AtDirOpen /\ ~should_skip)
                     => out'.data = out.data \o <<tpl[p]>>
              /\ (Scanning /\ AtVarOpen /\ ~should_skip /\ ret' = "running")
                     => out'.data = out.data \o SubstitutedText
              /\ (Scanning /\ AtVarOpen /\ ~should_skip
                  /\ err' = err /\ SubstitutedText = <<>>)
                     => out' = out /\ ret' = "running"]_vars

\* a buffer of capacity 3 has taken "<" and then the ten digits of an unsigned
\* value: two doublings in one append, and the terminator in the last byte
C34_Witness ==
    /\ input.family = "values"
    /\ out.capacity = 12
    /\ Len(out.data) = 11

(***************************************************************************)
(* C35: a condition on the loop variable, once per iteration               *)
(***************************************************************************)

\* C35: in {% for v in A %}{% if v %}Y{% else %}N{% endif %}{% endfor %} every
\* step at the if, taken with the loop at index i, records the truthiness of
\* element i of A as the outcome of the condition, and the render succeeds with
\* one Y or N per element, in array order, Y exactly for the truthy elements.
C35_ConditionPerElement ==
    /\ [][(input.family = "eachif" /\ Scanning /\ ~AtVarOpen /\ DirectiveReady /\ IsIf)
              => /\ ret' = "running"
                 /\ conditional_stack_has_top(conditional_stack')
                 /\ conditional_stack_top(conditional_stack').condition_met
                        = input.truthy[loop_stack_top(loop_stack).index + 1]]_vars
    /\ [](input.family = "eachif" /\ Done
              => /\ ret = "true"
                 /\ err = NoError
                 /\ out.data = [i \in 1..Len(input.truthy) |->
                                    IF input.truthy[i] THEN "Y" ELSE "N"])

\* a render over three elements, the first and the last falsy, has returned
C35_Witness ==
    /\ input.family = "eachif"
    /\ Done
    /\ Len(input.truthy) = MaxCount
    /\ ~input.truthy[1]
    /\ input.truthy[2]
    /\ ~input.truthy[MaxCount]
    /\ Len(out.data) = MaxCount

(***************************************************************************)
(* C36: the index of a loop frame stays inside its array                   *)
(***************************************************************************)

\* C36: in every state between two dispatch steps, and so wherever a step
\* reads the element of a loop frame, every frame on the loop stack has
\* 0 <= index < count of its array; no frame over an empty array is on the
\* stack.
C36_IndexInsideArray ==
    \A i \in 1..Len(loop_stack.frames) :
        /\ loop_stack.frames[i].index >= 0
        /\ loop_stack.frames[i].index < loop_stack.frames[i].array.value.array.count
        /\ loop_stack.frames[i].array.value.array.count > 0

\* the scan is at a substitution inside two loops, the inner one at the last
\* of several elements
C36_Witness ==
    /\ Scanning
    /\ AtVarOpen
    /\ ~should_skip
    /\ Len(loop_stack.frames) = 2
    /\ loop_stack_top(loop_stack).index > 0
    /\ loop_stack_top(loop_stack).index + 1
           = loop_stack_top(loop_stack).array.value.array.count

(***************************************************************************)
(* C37: the text after the endif                                           *)
(***************************************************************************)

\* what the conditional of a "tail" input is to emit before S
TailBranchText ==
    IF input.truthy THEN Exp(input.T, <<>>)
    ELSE StripLeadingNewlines(Exp(input.E, <<>>))

\* the scan reaches S by a jump past {% endif %}: from the if when the guard is
\* falsy and there is no else, from the else when the guard is truthy
TailReachedByJump == input.truthy = input.has_else

\* C37 as stated: in {% if c %}T{% endif %}S and {% if c %}T{% else %}E{% endif %}S
\* the text S is emitted in full and unchanged after the conditional, whatever
\* the guard and whether or not there is an else branch.
C37_Original ==
    input.family = "tail" /\ ~input.standalone =>
        (Done => ret = "true" /\ out.data = TailBranchText \o input.S)

\* C37 (amended): when no directive stands alone on its line, S is emitted in
\* full and unchanged if the endif is reached by scanning (truthy guard without
\* else, falsy guard with else), and without the newline characters it begins
\* with if the scan reaches S by a jump (falsy guard without else, truthy guard
\* with else); an S that does not begin with a newline is emitted in full in
\* every case.
C37_TextAfterEndif ==
    input.family = "tail" /\ ~input.standalone =>
        (Done =>
            /\ ret = "true"
            /\ out.data = TailBranchText \o (IF TailReachedByJump
                                             THEN StripLeadingNewlines(input.S)
                                             ELSE input.S)
            /\ Head(input.S) # "\n" => out.data = TailBranchText \o input.S)

\* a render has returned whose guard is falsy, with no else branch, and whose S
\* begins with two newlines
C37_Witness ==
    /\ input.family = "tail"
    /\ ~input.standalone
    /\ ~input.truthy
    /\ ~input.has_else
    /\ Len(input.S) > 2
    /\ input.S[1] = "\n"
    /\ input.S[2] = "\n"
    /\ ret = "true"
    /\ out.data = <<"S", "\n">>

(***************************************************************************)
(* C38: the text of a comment                                              *)
(***************************************************************************)

\* C38: two renders of templates that differ only in the text between <!-- and
\* -->, neither text holding "-->", over one context: when both have returned
\* they have the same return value, the same error and the same output.
C38_CommentContentsIgnored ==
    (input.family = "commentpair" /\ Done /\ other.ret # "running") =>
        /\ ret = other.ret
        /\ err = other.err
        /\ out.data = other.out.data

(***************************************************************************)
(* C39: what *err held before the call                                     *)
(***************************************************************************)

\* C39: a render whose *err still holds the error of an earlier failed render
\* (the first call) and a render of the same template and context whose *err
\* was zeroed (the second call) return the same value and the same output, and
\* when they fail the error is the one the call has set: the same in both.
C39_ResultIgnoresPriorError ==
    (input.family = "stale" /\ BothDone) =>
        /\ FirstCall.ret = SecondCall.ret
        /\ FirstCall.out.data = SecondCall.out.data
        /\ FirstCall.ret = "false" => FirstCall.err = SecondCall.err

(***************************************************************************)
(* C40: what a call has allocated when it returns                          *)
(***************************************************************************)

\* C40: when render has returned, with true or with false, no loop frame is
\* left on the loop stack (each frame pushed has been popped, which frees its
\* copy of the variable name) and the storage of the loop stack and of the
\* conditional stack has been freed.
C40_NothingOutlivesTheCall ==
    Done =>
        /\ loop_stack.frames = <<>>
        /\ ~loop_stack.allocated
        /\ ~conditional_stack.allocated

\* the part of C40 that holds: a render that returns true has popped every
\* frame and freed both stacks
C40_SuccessReleasesAll ==
    ret = "true" =>
        /\ loop_stack.frames = <<>>
        /\ conditional_stack.frames = <<>>
        /\ ~loop_stack.allocated
        /\ ~conditional_stack.allocated

====
